---- MODULE Spec2Model ----
(***************************************************************************)
(* Stage store of the CDS pipeline engine (package pipeline, stage.go) and *)
(* the request router (package main, router.go).                           *)
(*                                                                         *)
(* The database is the record db: its tables pipeline_stage,               *)
(* pipeline_stage_prerequisite, pipeline_action and pipeline, the id       *)
(* sequence of pipeline_stage and the server clock.  Every Go function     *)
(* that issues SQL is an operator from a database value (and its           *)
(* arguments) to a result [db, err]; the parameter f of such an operator   *)
(* is the number of the statement of that function that fails (0: none).   *)
(* A failing statement has no effect.  A failure covers every reason the   *)
(* storage engine may have to refuse a statement (transport, constraint).  *)
(***************************************************************************)
EXTENDS Integers, Sequences, FiniteSets, TLC

\* Bounds of the model.
MaxWrites == 2
MaxInserts == 1
MaxWriteCalls == 1

Pipelines == {1, 2}
Requests == {1, 2}
Names == {"build"}

Nil == "nil"
ErrStorage == "StorageError"
ErrNoStage == "cds: stage does not exist"

Prereq(p, v) ==
    [Parameter |-> p, ExpectedValue |-> v]

PrereqLists ==
    { <<>>, <<Prereq("branch", "master")>> }

\* sdk.Stage, the in-memory stage value (Actions are not used by the store).
Stage(id, pid, name, bo, en, pre) ==
    [ID |-> id, PipelineID |-> pid, Name |-> name, BuildOrder |-> bo,
     Enabled |-> en, Prerequisites |-> pre]

\* var stage sdk.Stage; stage.Prerequisites = []sdk.Prerequisite{}
ZeroStage ==
    Stage(0, 0, "", 0, FALSE, <<>>)

VARIABLES db, req, lastOp, params, call, pipe, router, http

vars == <<db, req, lastOp, params, call, pipe, router, http>>

\* the variables of the prerequisite evaluator: the parameters of the
\* caller's PipelineBuild and the call of CheckPrerequisites
evalVars == <<params, call>>

\* the variables of the store
storeVars == <<db, req, lastOp>>

\* the variable of the graph loader: the sdk.Pipeline that loadPipelineStage
\* fills, with its ID and its Stages
graphVars == <<pipe>>

\* the variables of the request router: the routes registered by
\* Router.Handle and the HTTP request being served
routerVars == <<router, http>>

Res(d, e) ==
    [db |-> d, err |-> e]

\* The table pipeline_stage_prerequisite is d.prereq: for every stage id that
\* has rows, the sequence of its rows (parameter, expected_value) in the
\* order of their insertion.  PrereqRows is the rows of one stage id.
PrereqRows(d, stageID) ==
    IF stageID \in DOMAIN d.prereq THEN d.prereq[stageID] ELSE <<>>

----------------------------------------------------------------------------
\* Statements of the store.

StageIDsOf(d, pipelineID) ==
    {i \in DOMAIN d.stage : d.stage[i].pipeline_id = pipelineID}

\* moveUpStages with build_order > $2: the stage at the new position stays
moveUpStages_StrictLower(d, pipelineID, oldPosition, newPosition, fail) ==
    IF fail THEN Res(d, ErrStorage)
    ELSE LET hit == {i \in StageIDsOf(d, pipelineID) :
                        /\ d.stage[i].build_order < oldPosition
                        /\ d.stage[i].build_order > newPosition}
         IN Res([d EXCEPT
                   !.stage = [i \in DOMAIN d.stage |->
                                IF i \in hit
                                THEN [d.stage[i] EXCEPT !.build_order = @ + 1]
                                ELSE d.stage[i]],
                   !.written = @ \cup {<<"pipeline_stage", i>> : i \in hit}],
                Nil)

\* moveUpStages without AND pipeline_id = $3
moveUpStages_AnyPipeline(d, pipelineID, oldPosition, newPosition, fail) ==
    IF fail THEN Res(d, ErrStorage)
    ELSE LET hit == {i \in DOMAIN d.stage :
                        /\ d.stage[i].build_order < oldPosition
                        /\ d.stage[i].build_order >= newPosition}
         IN Res([d EXCEPT
                   !.stage = [i \in DOMAIN d.stage |->
                                IF i \in hit
                                THEN [d.stage[i] EXCEPT !.build_order = @ + 1]
                                ELSE d.stage[i]],
                   !.written = @ \cup {<<"pipeline_stage", i>> : i \in hit}],
                Nil)

\* UPDATE pipeline_stage SET build_order=build_order+1
\* WHERE build_order < $1 AND build_order >= $2 AND pipeline_id = $3
moveUpStages(d, pipelineID, oldPosition, newPosition, fail) ==
    IF fail THEN Res(d, ErrStorage)
    ELSE LET hit == {i \in StageIDsOf(d, pipelineID) :
                        /\ d.stage[i].build_order < oldPosition
                        /\ d.stage[i].build_order >= newPosition}
         IN Res([d EXCEPT
                   !.stage = [i \in DOMAIN d.stage |->
                                IF i \in hit
                                THEN [d.stage[i] EXCEPT !.build_order = @ + 1]
                                ELSE d.stage[i]],
                   !.written = @ \cup {<<"pipeline_stage", i>> : i \in hit}],
                Nil)

\* moveDownStages with build_order < $1: the stage at the new position stays
moveDownStages_StrictUpper(d, pipelineID, oldPosition, newPosition, fail) ==
    IF fail THEN Res(d, ErrStorage)
    ELSE LET hit == {i \in StageIDsOf(d, pipelineID) :
                        /\ d.stage[i].build_order < newPosition
                        /\ d.stage[i].build_order > oldPosition}
         IN Res([d EXCEPT
                   !.stage = [i \in DOMAIN d.stage |->
                                IF i \in hit
                                THEN [d.stage[i] EXCEPT !.build_order = @ - 1]
                                ELSE d.stage[i]],
                   !.written = @ \cup {<<"pipeline_stage", i>> : i \in hit}],
                Nil)

\* UPDATE pipeline_stage SET build_order=build_order-1
\* WHERE build_order <= $1 AND build_order > $2 AND pipeline_id = $3
\* with $1 = newPosition, $2 = oldPosition
moveDownStages(d, pipelineID, oldPosition, newPosition, fail) ==
    IF fail THEN Res(d, ErrStorage)
    ELSE LET hit == {i \in StageIDsOf(d, pipelineID) :
                        /\ d.stage[i].build_order <= newPosition
                        /\ d.stage[i].build_order > oldPosition}
         IN Res([d EXCEPT
                   !.stage = [i \in DOMAIN d.stage |->
                                IF i \in hit
                                THEN [d.stage[i] EXCEPT !.build_order = @ - 1]
                                ELSE d.stage[i]],
                   !.written = @ \cup {<<"pipeline_stage", i>> : i \in hit}],
                Nil)

\* DELETE FROM pipeline_stage_prerequisite WHERE pipeline_stage_id = $1
deleteStagePrerequisites(d, stageID, fail) ==
    IF fail THEN Res(d, ErrStorage)
    ELSE Res([d EXCEPT
                !.prereq = [i \in DOMAIN d.prereq \ {stageID} |-> d.prereq[i]],
                !.written = @ \cup
                    (IF stageID \in DOMAIN d.prereq
                     THEN {<<"pipeline_stage_prerequisite", stageID>>}
                     ELSE {})],
             Nil)

\* UPDATE pipeline SET last_modified = current_timestamp WHERE id = $1
UpdatePipelineLastModified(d, pipelineID, fail) ==
    IF fail THEN Res(d, ErrStorage)
    ELSE IF pipelineID \in DOMAIN d.pipeline
         THEN Res([d EXCEPT
                     !.pipeline[pipelineID] = d.now,
                     !.written = @ \cup {<<"pipeline", pipelineID>>}],
                  Nil)
         ELSE Res(d, Nil)

\* DELETE FROM pipeline_action WHERE pipeline_stage_id = $1 (audited by userID)
DeletePipelineActionByStage(d, stageID, fail) ==
    IF fail THEN Res(d, ErrStorage)
    ELSE LET hit == {a \in d.action : a.pipeline_stage_id = stageID}
         IN Res([d EXCEPT
                   !.action = @ \ hit,
                   !.written = @ \cup {<<"pipeline_action", a.id>> : a \in hit}],
                Nil)

\* SELECT count(id) FROM pipeline_stage WHERE pipeline_id = $1
CountStageByPipelineID(d, pipelineID) ==
    Cardinality(StageIDsOf(d, pipelineID))

\* InsertStagePrequisites: statement 1 is the multi-row INSERT (issued only
\* for a non-empty list), statement 2 is UpdatePipelineLastModified.
InsertStagePrequisites(d, s, f) ==
    LET ins ==
            IF Len(s.Prerequisites) > 0
            THEN IF f = 1 THEN Res(d, ErrStorage)
                 ELSE Res([d EXCEPT
                             !.prereq =
                                 [i \in DOMAIN d.prereq \cup {s.ID} |->
                                    (IF i = s.ID THEN PrereqRows(d, i)
                                     ELSE d.prereq[i]) \o
                                    (IF i = s.ID
                                     THEN [k \in 1..Len(s.Prerequisites) |->
                                        [parameter |->
                                            s.Prerequisites[k].Parameter,
                                         expected_value |->
                                            s.Prerequisites[k].ExpectedValue]]
                                     ELSE <<>>)],
                             !.written = @ \cup
                                 {<<"pipeline_stage_prerequisite", s.ID>>}],
                          Nil)
            ELSE Res(d, Nil)
    IN IF ins.err # Nil THEN ins
       ELSE UpdatePipelineLastModified(ins.db, s.PipelineID, f = 2)

\* UpdateStage that inserts the given prerequisites without deleting the
\* stored ones
UpdateStage_KeepsPrerequisites(d, s, f) ==
    IF f = 1 THEN Res(d, ErrStorage)
    ELSE LET d1 == IF s.ID \in DOMAIN d.stage
                   THEN [d EXCEPT
                           !.stage[s.ID] = [@ EXCEPT !.name = s.Name,
                                                     !.build_order = s.BuildOrder,
                                                     !.enabled = s.Enabled],
                           !.written = @ \cup {<<"pipeline_stage", s.ID>>}]
                   ELSE d
         IN IF f = 2 THEN Res(d1, ErrStorage)
            ELSE InsertStagePrequisites(d1, s, f - 2)

\* UpdateStage: statement 1 is the UPDATE of the stage row, 2 the delete of
\* its prerequisites, 3 and 4 are those of InsertStagePrequisites.
UpdateStage(d, s, f) ==
    IF f = 1 THEN Res(d, ErrStorage)
    ELSE LET d1 == IF s.ID \in DOMAIN d.stage
                   THEN [d EXCEPT
                           !.stage[s.ID] = [@ EXCEPT !.name = s.Name,
                                                     !.build_order = s.BuildOrder,
                                                     !.enabled = s.Enabled],
                           !.written = @ \cup {<<"pipeline_stage", s.ID>>}]
                   ELSE d
             r2 == deleteStagePrerequisites(d1, s.ID, f = 2)
         IN IF r2.err # Nil THEN r2
            ELSE InsertStagePrequisites(r2.db, s, f - 2)

\* InsertStage that stores the Enabled of the stage it is given
InsertStage_KeepsEnabled(d, s, f) ==
    IF f = 1 THEN Res(d, ErrStorage)
    ELSE LET id == d.nextID
             s1 == [s EXCEPT !.ID = id]
             d1 == [d EXCEPT
                      !.stage = [i \in DOMAIN d.stage \cup {id} |->
                                   IF i = id
                                   THEN [pipeline_id |-> s.PipelineID,
                                         name |-> s.Name,
                                         build_order |-> s.BuildOrder,
                                         enabled |-> s.Enabled]
                                   ELSE d.stage[i]],
                      !.nextID = id + 1,
                      !.written = @ \cup {<<"pipeline_stage", id>>}]
         IN InsertStagePrequisites(d1, s1, f - 1)

\* InsertStage: statement 1 is the INSERT ... RETURNING id, 2 and 3 are those
\* of InsertStagePrequisites.  s.Enabled is set before the insert, s.ID after.
InsertStage(d, s, f) ==
    IF f = 1 THEN Res(d, ErrStorage)
    ELSE LET id == d.nextID
             s1 == [s EXCEPT !.Enabled = TRUE, !.ID = id]
             d1 == [d EXCEPT
                      !.stage = [i \in DOMAIN d.stage \cup {id} |->
                                   IF i = id
                                   THEN [pipeline_id |-> s.PipelineID,
                                         name |-> s.Name,
                                         build_order |-> s.BuildOrder,
                                         enabled |-> TRUE]
                                   ELSE d.stage[i]],
                      !.nextID = id + 1,
                      !.written = @ \cup {<<"pipeline_stage", id>>}]
         IN InsertStagePrequisites(d1, s1, f - 1)

\* deleteStageByID: statement 1 deletes the prerequisites, 2 the stage row.
deleteStageByID(d, s, f) ==
    LET r1 == deleteStagePrerequisites(d, s.ID, f = 1)
    IN IF r1.err # Nil THEN r1
       ELSE IF f = 2 THEN Res(r1.db, ErrStorage)
       ELSE Res([r1.db EXCEPT
                   !.stage = [i \in DOMAIN r1.db.stage \ {s.ID} |->
                                r1.db.stage[i]],
                   !.written = @ \cup
                       (IF s.ID \in DOMAIN r1.db.stage
                        THEN {<<"pipeline_stage", s.ID>>} ELSE {})],
                Nil)

\* DeleteStageByID that counts the stages after it deleted the row
DeleteStageByID_CountAfterDelete(tx, s, f) ==
    IF f = 1 THEN Res(tx, ErrStorage)
    ELSE LET r2 == DeletePipelineActionByStage(tx, s.ID, f = 2)
             r3 == deleteStageByID(r2.db, s, f - 2)
             nbOfStages == CountStageByPipelineID(r3.db, s.PipelineID)
         IN IF r2.err # Nil THEN r2
            ELSE IF r3.err # Nil THEN r3
            ELSE moveDownStages(r3.db, s.PipelineID, s.BuildOrder,
                                nbOfStages, f = 5)

\* DeleteStageByID that goes on after a failed action-placement cleanup
DeleteStageByID_IgnoresCleanupError(tx, s, f) ==
    IF f = 1 THEN Res(tx, ErrStorage)
    ELSE LET nbOfStages == CountStageByPipelineID(tx, s.PipelineID)
             r2 == DeletePipelineActionByStage(tx, s.ID, f = 2)
             r3 == deleteStageByID(r2.db, s, f - 2)
         IN IF r3.err # Nil THEN r3
            ELSE moveDownStages(r3.db, s.PipelineID, s.BuildOrder,
                                nbOfStages, f = 5)

\* DeleteStageByID on the handle tx: statement 1 is the count, 2 the
\* action-placement cleanup, 3 and 4 are those of deleteStageByID, 5 is the
\* shift.  On an error the handle keeps what the earlier statements did.
DeleteStageByID(tx, s, f) ==
    IF f = 1 THEN Res(tx, ErrStorage)
    ELSE LET nbOfStages == CountStageByPipelineID(tx, s.PipelineID)
             r2 == DeletePipelineActionByStage(tx, s.ID, f = 2)
             r3 == deleteStageByID(r2.db, s, f - 2)
         IN IF r2.err # Nil THEN r2
            ELSE IF r3.err # Nil THEN r3
            ELSE moveDownStages(r3.db, s.PipelineID, s.BuildOrder,
                                nbOfStages, f = 5)

\* MoveStage that returns at once when the position does not change
MoveStage_SamePositionReturns(d, stageToMove, newBuildOrder, f) ==
    IF f = 1 THEN Res(d, ErrStorage)
    ELSE IF stageToMove.BuildOrder = newBuildOrder THEN Res(d, Nil)
    ELSE LET r2 == IF stageToMove.BuildOrder > newBuildOrder
                   THEN moveUpStages(d, stageToMove.PipelineID,
                                     stageToMove.BuildOrder, newBuildOrder,
                                     f = 2)
                   ELSE moveDownStages(d, stageToMove.PipelineID,
                                       stageToMove.BuildOrder, newBuildOrder,
                                       f = 2)
             moved == [stageToMove EXCEPT !.BuildOrder = newBuildOrder]
             r3 == UpdateStage(r2.db, moved, f - 2)
         IN IF r2.err # Nil THEN Res(d, r2.err)
            ELSE IF r3.err # Nil THEN Res(d, r3.err)
            ELSE IF f = 7 THEN Res(d, ErrStorage)
            ELSE r3

\* MoveStage without the deferred rollback: on an error of UpdateStage what
\* the statements before it did stays
MoveStage_NoRollback(d, stageToMove, newBuildOrder, f) ==
    IF f = 1 THEN Res(d, ErrStorage)
    ELSE LET r2 == IF stageToMove.BuildOrder > newBuildOrder
                   THEN moveUpStages(d, stageToMove.PipelineID,
                                     stageToMove.BuildOrder, newBuildOrder,
                                     f = 2)
                   ELSE IF stageToMove.BuildOrder < newBuildOrder
                   THEN moveDownStages(d, stageToMove.PipelineID,
                                       stageToMove.BuildOrder, newBuildOrder,
                                       f = 2)
                   ELSE Res(d, Nil)
             moved == [stageToMove EXCEPT !.BuildOrder = newBuildOrder]
             r3 == UpdateStage(r2.db, moved, f - 2)
         IN IF r2.err # Nil THEN Res(d, r2.err)
            ELSE IF r3.err # Nil THEN r3
            ELSE IF f = 7 THEN Res(d, ErrStorage)
            ELSE r3

\* MoveStage: statement 1 is db.Begin, 2 the range shift (none when the
\* positions are equal), 3 to 6 are those of UpdateStage, 7 is tx.Commit.
\* The deferred tx.Rollback discards the transaction on every error return.
MoveStage(d, stageToMove, newBuildOrder, f) ==
    IF f = 1 THEN Res(d, ErrStorage)
    ELSE LET r2 == IF stageToMove.BuildOrder > newBuildOrder
                   THEN moveUpStages(d, stageToMove.PipelineID,
                                     stageToMove.BuildOrder, newBuildOrder,
                                     f = 2)
                   ELSE IF stageToMove.BuildOrder < newBuildOrder
                   THEN moveDownStages(d, stageToMove.PipelineID,
                                       stageToMove.BuildOrder, newBuildOrder,
                                       f = 2)
                   ELSE Res(d, Nil)
             moved == [stageToMove EXCEPT !.BuildOrder = newBuildOrder]
             r3 == UpdateStage(r2.db, moved, f - 2)
         IN IF r2.err # Nil THEN Res(d, r2.err)
            ELSE IF r3.err # Nil THEN Res(d, r3.err)
            ELSE IF f = 7 THEN Res(d, ErrStorage)
            ELSE r3

----------------------------------------------------------------------------
\* Queries of the store.  db.Query of database/sql returns the rows (possibly
\* none) or an error of the storage engine; sql.ErrNoRows is returned only by
\* Row.Scan, never by Query.

SqlErrNoRows == "sql: no rows in result set"

QueryErrors == {Nil, ErrStorage}

RECURSIVE Reverse(_)
Reverse(s) ==
    IF s = <<>> THEN <<>> ELSE Reverse(Tail(s)) \o <<Head(s)>>

\* The rows of pipeline_stage LEFT OUTER JOIN pipeline_stage_prerequisite for
\* the stage row id: one row per prerequisite row, or one row with NULL
\* prerequisite columns.  The engine returns them in table order or, rev,
\* in the opposite order (the queries do not order the prerequisites).
JoinRows(d, id, rev) ==
    LET pr == PrereqRows(d, id)
        row(valid, p, v) ==
            [id |-> id,
             pipeline_id |-> d.stage[id].pipeline_id,
             name |-> d.stage[id].name,
             build_order |-> d.stage[id].build_order,
             enabled |-> d.stage[id].enabled,
             valid |-> valid, parameter |-> p, expected_value |-> v]
        rows == IF pr = <<>> THEN <<row(FALSE, "", "")>>
                ELSE [k \in 1..Len(pr) |->
                        row(TRUE, pr[k].parameter, pr[k].expected_value)]
    IN IF rev THEN Reverse(rows) ELSE rows

RECURSIVE ScanStage(_, _)
\* the rows.Next loop of LoadStage: every row overwrites the stage fields and
\* a row with a valid prerequisite appends it
ScanStage(rows, stage) ==
    IF rows = <<>> THEN stage
    ELSE LET row == Head(rows)
             s1 == [stage EXCEPT !.ID = row.id,
                                 !.PipelineID = row.pipeline_id,
                                 !.Name = row.name,
                                 !.BuildOrder = row.build_order,
                                 !.Enabled = row.enabled]
             s2 == IF row.valid
                   THEN [s1 EXCEPT !.Prerequisites =
                            Append(@, Prereq(row.parameter, row.expected_value))]
                   ELSE s1
         IN ScanStage(Tail(rows), s2)

\* LoadStage returns [stage, err]; e is the error of db.Query.
LoadStage(d, pipelineID, stageID, e, rev) ==
    IF e = SqlErrNoRows THEN [stage |-> ZeroStage, err |-> ErrNoStage]
    ELSE IF e # Nil THEN [stage |-> ZeroStage, err |-> e]
    ELSE LET rows == IF /\ stageID \in DOMAIN d.stage
                        /\ d.stage[stageID].pipeline_id = pipelineID
                     THEN JoinRows(d, stageID, rev)
                     ELSE <<>>
         IN [stage |-> ScanStage(rows, ZeroStage), err |-> Nil]

RECURSIVE OrderedStageIDs(_, _, _)
\* the stage ids of ids by ascending build_order; stages with equal
\* build_order come by ascending id or, rev, by descending id
OrderedStageIDs(d, ids, rev) ==
    IF ids = {} THEN <<>>
    ELSE LET first == CHOOSE i \in ids : \A j \in ids :
                        \/ d.stage[i].build_order < d.stage[j].build_order
                        \/ /\ d.stage[i].build_order = d.stage[j].build_order
                           /\ IF rev THEN i >= j ELSE i <= j
         IN <<first>> \o OrderedStageIDs(d, ids \ {first}, rev)

RECURSIVE StagesRows(_, _, _)
StagesRows(d, idseq, rev) ==
    IF idseq = <<>> THEN <<>>
    ELSE JoinRows(d, Head(idseq), rev) \o StagesRows(d, Tail(idseq), rev)

RECURSIVE ScanStages(_, _, _)
\* the rows.Next loop of LoadStages over mapStages and stagesPtr: the stage of
\* the row is created when its id is new, a valid prerequisite is appended to
\* it, and the pointer is appended to stagesPtr for every row
ScanStages(rows, mapStages, stagesPtr) ==
    IF rows = <<>> THEN [mapStages |-> mapStages, stagesPtr |-> stagesPtr]
    ELSE LET row == Head(rows)
             m1 == IF row.id \in DOMAIN mapStages THEN mapStages
                   ELSE [i \in DOMAIN mapStages \cup {row.id} |->
                           IF i = row.id
                           THEN Stage(row.id, 0, row.name, 0, row.enabled, <<>>)
                           ELSE mapStages[i]]
             m2 == IF row.valid
                   THEN [m1 EXCEPT ![row.id].Prerequisites =
                            Append(@, Prereq(row.parameter, row.expected_value))]
                   ELSE m1
         IN ScanStages(Tail(rows), m2, Append(stagesPtr, row.id))

\* LoadStages returns [stages, err]; e is the error of db.Query.
LoadStages(d, pipelineID, e, rev) ==
    IF e # Nil THEN [stages |-> <<>>, err |-> e]
    ELSE LET rows == StagesRows(d,
                        OrderedStageIDs(d, StageIDsOf(d, pipelineID), rev), rev)
             scan == ScanStages(rows, <<>>, <<>>)
         IN [stages |-> [k \in 1..Len(scan.stagesPtr) |->
                            scan.mapStages[scan.stagesPtr[k]]],
             err |-> Nil]

----------------------------------------------------------------------------
\* Initial database: pipeline 1 with the stages 1, 2, 3 at these build
\* orders, pipeline 2 with the stage 4 at build order 1.

InitStage ==
    [i \in 1..4 |->
        [pipeline_id |-> IF i <= 3 THEN 1 ELSE 2,
         name |-> "build",
         build_order |-> IF i <= 3 THEN i ELSE 1,
         enabled |-> TRUE]]

InitPrereq ==
    [i \in {1, 2, 4} |->
        IF i = 1
        THEN << [parameter |-> "branch", expected_value |-> "master"],
                [parameter |-> "env", expected_value |-> "prod"] >>
        ELSE << [parameter |-> "branch", expected_value |-> "master"] >>]

InitDB ==
    [stage |-> InitStage,
     prereq |-> InitPrereq,
     action |-> {[id |-> 1, pipeline_stage_id |-> 1],
                 [id |-> 2, pipeline_stage_id |-> 4]},
     pipeline |-> [p \in Pipelines |-> 0],
     nextID |-> 5,
     now |-> 0,
     written |-> {}]

\* lastOp describes the most recent operation: its name, the stage value and
\* the position it was given, the statement that failed (0: none), the error
\* it returned and, for LoadStages, the stages it returned.
NoOp ==
    [op |-> "none", pid |-> 0, sid |-> 0, stage |-> ZeroStage, new |-> 0,
     f |-> 0, err |-> Nil, res |-> <<>>]

\* A request: its position, the stage LoadStage gave it, the error of its
\* write operation.
Idle ==
    [pc |-> "idle", stage |-> ZeroStage, err |-> Nil]

\* no call of CheckPrerequisites
NoCall ==
    [pc |-> "none", prereqs |-> <<>>, before |-> <<>>, ok |-> FALSE,
     err |-> Nil]

\* no sdk.Pipeline to fill
NoPipeline ==
    [ID |-> 0, Stages |-> <<>>]

\* rc := &routerConfig{auth: true, isExecution: false, needAdmin: false}
DefaultConfig ==
    [get |-> Nil, post |-> Nil, put |-> Nil, deleteHandler |-> Nil,
     auth |-> TRUE, isExecution |-> FALSE, needAdmin |-> FALSE]

\* no route in router.mux, no entry in mapRouterConfigs
NoRouter ==
    [mux |-> <<>>, mapRouterConfigs |-> <<>>]

\* no request is being served.  A request has its method and its path, the
\* routerConfig rc of the route that serves it, db (whether database.DB()
\* gave a connection), the user of its context c ("nil", "admin", "user"),
\* permissionOk, the calls made for it so far and the response written.
NoRequest ==
    [pc |-> "none", method |-> "", path |-> "", rc |-> DefaultConfig,
     db |-> FALSE, user |-> "nil", permissionOk |-> FALSE, events |-> <<>>,
     response |-> ""]

Init ==
    /\ db = InitDB
    /\ req = [r \in {1} |-> Idle]
    /\ lastOp = NoOp
    /\ params = <<>>
    /\ call = NoCall
    /\ pipe = NoPipeline
    /\ router = NoRouter
    /\ http = NoRequest

\* A write operation starts at the next tick of the server clock with an
\* empty record of the rows it touched.
Tick(d) ==
    [d EXCEPT !.now = @ + 1, !.written = {}]

\* deleteStage: the caller of DeleteStageByID runs it in one transaction:
\* statement 1 is the begin, 2 to 6 are those of DeleteStageByID, 7 is the
\* commit; an error rolls the transaction back.
deleteStage(d, s, f) ==
    IF f = 1 THEN Res(d, ErrStorage)
    ELSE LET r == DeleteStageByID(d, s, f - 1)
         IN IF r.err # Nil THEN Res(d, r.err)
            ELSE IF f = 7 THEN Res(d, ErrStorage)
            ELSE r

\* The positions a caller asks for: for a move, every position of the
\* pipeline and, with beyond = 1, the one below the first and the one above
\* the last; for an
\* insert, the first position and the one after the last (the append).
MoveOrders(d, pipelineID, beyond) ==
    (1 - beyond)..(CountStageByPipelineID(d, pipelineID) + beyond)

InsertOrders(d, pipelineID) ==
    {1, CountStageByPipelineID(d, pipelineID) + 1}

\* A request that is at a position of from loads a stage:
\* LoadStage(db, pipelineID, stageID), for the id of a stage row or for an id
\* that no row has (the next of the sequence).
LoadStageReq(r, from, pids, sids, errs) ==
    /\ req[r].pc \in from
    /\ \E pid \in pids, sid \in sids, e \in errs, rev \in BOOLEAN :
          LET res == LoadStage(db, pid, sid, e, rev)
          IN /\ req' = [req EXCEPT ![r] =
                          IF res.err = Nil
                          THEN [pc |-> "loaded", stage |-> res.stage,
                                err |-> Nil]
                          ELSE Idle]
             /\ lastOp' = [NoOp EXCEPT !.op = "LoadStage", !.pid = pid,
                                       !.sid = sid, !.stage = res.stage,
                                       !.err = res.err]
    /\ UNCHANGED <<db, evalVars, graphVars, routerVars>>

\* The request moves the stage it loaded: MoveStage(db, stage, new).
MoveStageReq(r, beyond, fails) ==
    /\ req[r].pc = "loaded"
    /\ db.now < MaxWrites
    /\ \E new \in MoveOrders(db, req[r].stage.PipelineID, beyond),
          f \in fails :
          LET res == MoveStage(Tick(db), req[r].stage, new, f)
          IN /\ db' = res.db
             /\ lastOp' = [NoOp EXCEPT !.op = "MoveStage",
                                       !.pid = req[r].stage.PipelineID,
                                       !.sid = req[r].stage.ID,
                                       !.stage = req[r].stage,
                                       !.new = new, !.f = f,
                                       !.err = res.err]
             /\ req' = [req EXCEPT ![r] = [pc |-> "done", stage |-> ZeroStage,
                                           err |-> res.err]]
    /\ UNCHANGED <<evalVars, graphVars, routerVars>>

\* The request deletes the stage it loaded: DeleteStageByID(tx, stage, user).
DeleteStageReq(r, fails) ==
    /\ req[r].pc = "loaded"
    /\ db.now < MaxWrites
    /\ \E f \in fails :
          LET res == deleteStage(Tick(db), req[r].stage, f)
          IN /\ db' = res.db
             /\ lastOp' = [NoOp EXCEPT !.op = "DeleteStageByID",
                                       !.pid = req[r].stage.PipelineID,
                                       !.sid = req[r].stage.ID,
                                       !.stage = req[r].stage,
                                       !.f = f, !.err = res.err]
             /\ req' = [req EXCEPT ![r] = [pc |-> "done", stage |-> ZeroStage,
                                           err |-> res.err]]
    /\ UNCHANGED <<evalVars, graphVars, routerVars>>

\* InsertStage(db, s) for a new stage value s of pipeline 1.  The handle is
\* the database (what the statements before an error did stays) or, inTx, a
\* transaction of the caller that an error rolls back.  lastOp.stage is s
\* as the caller gives it.
InsertStageReq ==
    /\ db.now < MaxWrites
    /\ db.nextID < InitDB.nextID + MaxInserts
    /\ \E nm \in Names, bo \in InsertOrders(db, 1), en \in BOOLEAN,
          pre \in PrereqLists, f \in 0..3 :
          \E inTx \in IF f = 0 THEN {FALSE} ELSE BOOLEAN :
          LET s == Stage(0, 1, nm, bo, en, pre)
              res == InsertStage(Tick(db), s, f)
          IN /\ db' = IF res.err # Nil /\ inTx THEN Tick(db) ELSE res.db
             /\ lastOp' = [NoOp EXCEPT !.op = "InsertStage", !.pid = 1,
                                       !.sid = db.nextID,
                                       !.stage = s,
                                       !.new = bo, !.f = f,
                                       !.err = res.err]
    /\ UNCHANGED <<req, evalVars, graphVars, routerVars>>

\* LoadStages(db, pipelineID).
LoadStagesReq ==
    /\ \E pid \in Pipelines, e \in QueryErrors, rev \in BOOLEAN :
          LET res == LoadStages(db, pid, e, rev)
          IN lastOp' = [NoOp EXCEPT !.op = "LoadStages", !.pid = pid,
                                    !.err = res.err, !.res = res.stages]
    /\ UNCHANGED <<db, req, evalVars, graphVars, routerVars>>

\* One worker serves the requests one after the other.
Next ==
    \/ LoadStageReq(1, {"idle", "done"}, {1},
                    DOMAIN db.stage \cup {db.nextID}, {Nil})
    \/ MoveStageReq(1, 1, 0..7)
    \/ DeleteStageReq(1, 0..7)
    \/ InsertStageReq

Spec ==
    Init /\ [][Next]_vars

----------------------------------------------------------------------------
\* Two concurrent requests on pipeline 1.  Each loads a stage of the
\* pipeline, then runs MoveStage to a position of the pipeline or
\* DeleteStageByID as one transaction that commits; the storage engine
\* serializes the transactions, the loads interleave with them freely.

InitConc ==
    /\ db = InitDB
    /\ req = [r \in Requests |-> Idle]
    /\ lastOp = NoOp
    /\ params = <<>>
    /\ call = NoCall
    /\ pipe = NoPipeline
    /\ router = NoRouter
    /\ http = NoRequest

NextConc ==
    \/ \E r \in Requests :
          LoadStageReq(r, {"idle"}, {1}, StageIDsOf(db, 1), {Nil})
    \/ \E r \in Requests : MoveStageReq(r, 0, {0})
    \/ \E r \in Requests : DeleteStageReq(r, {0})

SpecConc ==
    InitConc /\ [][NextConc]_vars

----------------------------------------------------------------------------
\* The queries on their own, over databases that hold pipeline 1 with three
\* stages in either order of their ids, each with none, one, two or two
\* equal prerequisite rows, and pipeline 2 with one stage.

ReadRowLists ==
    { <<>>,
      << [parameter |-> "branch", expected_value |-> "master"] >>,
      << [parameter |-> "branch", expected_value |-> "master"],
         [parameter |-> "env", expected_value |-> "prod"] >>,
      << [parameter |-> "branch", expected_value |-> "master"],
         [parameter |-> "branch", expected_value |-> "master"] >> }

ReadDB(reversed, rows) ==
    [InitDB EXCEPT
       !.stage = [i \in DOMAIN InitStage |->
                    IF reversed /\ InitStage[i].pipeline_id = 1
                    THEN [InitStage[i] EXCEPT !.build_order = 4 - i]
                    ELSE InitStage[i]],
       !.prereq = [i \in {j \in DOMAIN rows : rows[j] # <<>>} |-> rows[i]]]

InitRead ==
    /\ \E reversed \in BOOLEAN, rows \in [1..3 -> ReadRowLists] :
          db = ReadDB(reversed, rows)
    /\ req = [r \in {1} |-> Idle]
    /\ lastOp = NoOp
    /\ params = <<>>
    /\ call = NoCall
    /\ pipe = NoPipeline
    /\ router = NoRouter
    /\ http = NoRequest

NextRead ==
    \/ LoadStageReq(1, {"idle", "loaded"}, Pipelines,
                    DOMAIN db.stage \cup {db.nextID}, QueryErrors)
    \/ LoadStagesReq

SpecRead ==
    InitRead /\ [][NextRead]_vars

----------------------------------------------------------------------------
\* The prerequisite evaluator, CheckPrerequisites.  A Go string is the
\* sequence of its characters.

\* strings.Replace(s, old, new, -1) for a non-empty old: the occurrences of
\* old are found from the left, without overlap, and replaced by new
RECURSIVE Replace(_, _, _)
Replace(s, old, new) ==
    IF Len(s) < Len(old) THEN s
    ELSE IF SubSeq(s, 1, Len(old)) = old
         THEN new \o Replace(SubSeq(s, Len(old) + 1, Len(s)), old, new)
         ELSE <<Head(s)>> \o Replace(Tail(s), old, new)

\* "{{." + name + "}}"
Placeholder(name) ==
    <<"{", "{", ".">> \o name \o <<"}", "}">>

\* sdk.Parameter, of which the evaluator uses Name and Value
Parameter(name, value) ==
    [Name |-> name, Value |-> value]

RECURSIVE ReplaceInAll_FromSecond(_, _, _)
\* ReplaceInAll with the first parameter of the list left as it is
ReplaceInAll_FromSecond(ps, pbp, i) ==
    IF i > Len(ps) THEN ps
    ELSE ReplaceInAll_FromSecond(
            [ps EXCEPT ![i].Value =
                IF i = 1 THEN @
                ELSE Replace(@, Placeholder(pbp.Name), pbp.Value)],
            pbp, i + 1)

RECURSIVE ReplaceInAll(_, _, _)
\* the inner loop: for i := range pb.Parameters, from the index i on,
\* replaces the placeholder of pbp in pb.Parameters[i].Value
ReplaceInAll(ps, pbp, i) ==
    IF i > Len(ps) THEN ps
    ELSE ReplaceInAll(
            [ps EXCEPT ![i].Value =
                Replace(@, Placeholder(pbp.Name), pbp.Value)],
            pbp, i + 1)

RECURSIVE ResolvePass(_, _)
\* the outer loop: for _, pbp := range pb.Parameters, from the index k on;
\* pbp is the copy of the element k at the time its iteration starts
ResolvePass(ps, k) ==
    IF k > Len(ps) THEN ps
    ELSE ResolvePass(ReplaceInAll(ps, ps[k], 1), k + 1)

\* replaced, as the inner loop sets it from the index i on: a value of
\* pb.Parameters differs from what it was before its strings.Replace
ReplacedInAll(ps, pbp, i) ==
    \E j \in i..Len(ps) : ReplaceInAll(ps, pbp, i)[j].Value # ps[j].Value

RECURSIVE Replaced(_, _)
\* replaced at the end of a pass of the outer loop, from the index k on
Replaced(ps, k) ==
    IF k > Len(ps) THEN FALSE
    ELSE \/ ReplacedInAll(ps, ps[k], 1)
         \/ Replaced(ReplaceInAll(ps, ps[k], 1), k + 1)

\* trigger.ProcessTriggerExpectedValue(payload, pb): the placeholders of the
\* build parameters in the expected value are replaced by their values
RECURSIVE ProcessTriggerExpectedValue(_, _, _)
ProcessTriggerExpectedValue(payload, ps, k) ==
    IF k > Len(ps) THEN payload
    ELSE ProcessTriggerExpectedValue(
            Replace(payload, Placeholder(ps[k].Name), ps[k].Value), ps, k + 1)

\* regexp.Match(pattern, b) of the Go library, for the patterns made of
\* literal characters, ".", the postfix "*", the anchors "^" and "$" and a
\* top-level "|".  A compiled alternative is a sequence of items
\* [atom, star].

ErrMissingArgument == "missing argument to repetition operator"
ErrNestedRepetition == "invalid nested repetition operator"

RECURSIVE SplitAlternatives(_, _)
\* the alternatives of the pattern, cur being the one read so far
SplitAlternatives(pattern, cur) ==
    IF pattern = <<>> THEN <<cur>>
    ELSE IF Head(pattern) = "|"
         THEN <<cur>> \o SplitAlternatives(Tail(pattern), <<>>)
         ELSE SplitAlternatives(Tail(pattern), Append(cur, Head(pattern)))

RECURSIVE CompileAlternative(_, _)
\* [items, err] of the characters of one alternative, items being those
\* compiled so far
CompileAlternative(chars, items) ==
    IF chars = <<>> THEN [items |-> items, err |-> Nil]
    ELSE IF Head(chars) = "*"
         THEN IF items = <<>>
              THEN [items |-> <<>>, err |-> ErrMissingArgument]
              ELSE IF items[Len(items)].star
              THEN [items |-> <<>>, err |-> ErrNestedRepetition]
              ELSE CompileAlternative(Tail(chars),
                      [items EXCEPT ![Len(items)].star = TRUE])
         ELSE CompileAlternative(Tail(chars),
                 Append(items, [atom |-> Head(chars), star |-> FALSE]))

\* regexp.Compile: [alts, err]
Compile(pattern) ==
    LET split == SplitAlternatives(pattern, <<>>)
        alts == [a \in 1..Len(split) |-> CompileAlternative(split[a], <<>>)]
    IN IF \E a \in 1..Len(alts) : alts[a].err # Nil
       THEN [alts |-> <<>>,
             err |-> alts[CHOOSE a \in 1..Len(alts) :
                             /\ alts[a].err # Nil
                             /\ \A b \in 1..(a - 1) : alts[b].err = Nil].err]
       ELSE [alts |-> [a \in 1..Len(alts) |-> alts[a].items], err |-> Nil]

RECURSIVE MatchHere(_, _, _)
\* the items match the text from the position pos (the number of characters
\* before it) on; the match may end anywhere
MatchHere(items, text, pos) ==
    IF items = <<>> THEN TRUE
    ELSE LET it == Head(items)
             width == it.atom \notin {"^", "$"}
             here == IF it.atom = "^" THEN pos = 0
                     ELSE IF it.atom = "$" THEN pos = Len(text)
                     ELSE /\ pos < Len(text)
                          /\ it.atom \in {".", text[pos + 1]}
         IN IF it.star
            THEN \/ MatchHere(Tail(items), text, pos)
                 \/ /\ width
                    /\ here
                    /\ MatchHere(items, text, pos + 1)
            ELSE /\ here
                 /\ MatchHere(Tail(items), text,
                              IF width THEN pos + 1 ELSE pos)

\* regexp.Match: [ok, err]; the pattern matches when an alternative matches
\* from some position of the text
RegexpMatch(pattern, text) ==
    LET c == Compile(pattern)
    IN IF c.err # Nil THEN [ok |-> FALSE, err |-> c.err]
       ELSE [ok |-> \E a \in 1..Len(c.alts), pos \in 0..Len(text) :
                       MatchHere(c.alts[a], text, pos),
             err |-> Nil]

\* the expected value with "^" put before it unless it starts with "^" and
\* "$" put after it unless it ends with "$"
Anchored(expectedValue) ==
    LET a == IF expectedValue # <<>> /\ Head(expectedValue) = "^"
             THEN expectedValue ELSE <<"^">> \o expectedValue
    IN IF a[Len(a)] = "$" THEN a ELSE a \o <<"$">>

RECURSIVE CheckConditions(_, _, _, _)
\* the loops over s.Prerequisites (index i) and pb.Parameters (index k) that
\* follow the resolution: [ok, err]
CheckConditions(prereqs, ps, i, k) ==
    IF i > Len(prereqs) THEN [ok |-> TRUE, err |-> Nil]
    ELSE IF k > Len(ps) THEN CheckConditions(prereqs, ps, i + 1, 1)
    ELSE IF prereqs[i].Parameter = ps[k].Name
         THEN LET expectedValue ==
                      Anchored(ProcessTriggerExpectedValue(
                                  prereqs[i].ExpectedValue, ps, 1))
                  m == RegexpMatch(expectedValue, ps[k].Value)
              IN IF m.err # Nil THEN [ok |-> FALSE, err |-> m.err]
                 ELSE IF ~ m.ok THEN [ok |-> FALSE, err |-> Nil]
                 ELSE CheckConditions(prereqs, ps, i, k + 1)
         ELSE CheckConditions(prereqs, ps, i, k + 1)

\* Bound of the model: the longest parameter value a pass may produce.
MaxValueLen == 8

ParamNames == {<<"a">>, <<"b">>}

ParamValues ==
    { <<"x">>,
      <<"x", "y">>,
      Placeholder(<<"a">>),
      Placeholder(<<"b">>),
      Placeholder(<<"a">>) \o <<"x">> }

\* the parameter lists of a build: one or two parameters of different names
ParamLists ==
    {<<Parameter(n, v)>> : n \in ParamNames, v \in ParamValues}
    \cup {<<Parameter(nm[1], v), Parameter(nm[2], w)>> :
             nm \in {<<n, m>> \in ParamNames \X ParamNames : n # m},
             v \in ParamValues, w \in ParamValues}

ExpectedValues ==
    { <<"x">>, <<"x", ".", "*">>, <<"x", "|", "y">>, <<"*">>,
      <<"x", "*", "*">>, Placeholder(<<"b">>) }

\* the prerequisite lists of a stage
EvalPrereqLists ==
    {<<>>}
    \cup {<<Prereq(n, e)>> : n \in ParamNames, e \in ExpectedValues}
    \cup {<<Prereq(<<"a">>, e), Prereq(<<"b">>, <<"x">>)>> :
             e \in ExpectedValues}
    \cup {<<Prereq(<<"b">>, <<"x">>), Prereq(<<"a">>, e)>> :
             e \in ExpectedValues}

\* No call of CheckPrerequisites yet.
InitEval ==
    /\ db = InitDB
    /\ req = [r \in {1} |-> Idle]
    /\ lastOp = NoOp
    /\ params = <<>>
    /\ call = NoCall
    /\ pipe = NoPipeline
    /\ router = NoRouter
    /\ http = NoRequest

\* CheckPrerequisites(s, pb) is called: s and pb are copies, pb.Parameters is
\* a slice on the array of the caller's parameters, which is params.
CheckPrerequisitesCalled(lists, prereqLists) ==
    /\ call.pc = "none"
    /\ params' \in lists
    /\ \E pre \in prereqLists :
          call' = [pc |-> "resolve", prereqs |-> pre, before |-> params',
                   ok |-> FALSE, err |-> Nil]
    /\ UNCHANGED <<storeVars, graphVars, routerVars>>

\* One pass of the for loop that replaced something: the loop goes on.
ResolveAgain ==
    /\ call.pc = "resolve"
    /\ Replaced(params, 1)
    /\ \A k \in 1..Len(params) :
          Len(ResolvePass(params, 1)[k].Value) <= MaxValueLen
    /\ params' = ResolvePass(params, 1)
    /\ UNCHANGED <<call, storeVars, graphVars, routerVars>>

\* One pass that replaced nothing: break.
ResolveBreak ==
    /\ call.pc = "resolve"
    /\ ~ Replaced(params, 1)
    /\ call' = [call EXCEPT !.pc = "check"]
    /\ UNCHANGED <<params, storeVars, graphVars, routerVars>>

\* The check of the conditions and the return.
CheckReturn ==
    /\ call.pc = "check"
    /\ LET r == CheckConditions(call.prereqs, params, 1, 1)
       IN call' = [call EXCEPT !.pc = "done", !.ok = r.ok, !.err = r.err]
    /\ UNCHANGED <<params, storeVars, graphVars, routerVars>>

NextEval ==
    \/ CheckPrerequisitesCalled(ParamLists, EvalPrereqLists)
    \/ ResolveAgain
    \/ ResolveBreak
    \/ CheckReturn

SpecEval ==
    InitEval /\ [][NextEval]_vars

\* The resolution loop runs on: a pass of it that can be made is made.
SpecEvalRuns ==
    SpecEval /\ WF_vars(ResolveAgain) /\ WF_vars(ResolveBreak)

\* Calls with up to three parameters that refer to each other.
ChainNames == {<<"a">>, <<"b">>, <<"c">>}

ChainValues ==
    { <<"x">>, <<"y">>,
      Placeholder(<<"a">>), Placeholder(<<"b">>), Placeholder(<<"c">>),
      <<"x">> \o Placeholder(<<"b">>) }

ChainLists ==
    {<<Parameter(n, v)>> : n \in ChainNames, v \in ChainValues}
    \cup {<<Parameter(nm[1], v), Parameter(nm[2], w)>> :
             nm \in {<<n, m>> \in ChainNames \X ChainNames : n # m},
             v \in ChainValues, w \in ChainValues}
    \cup {<<Parameter(nm[1], v[1]), Parameter(nm[2], v[2]),
             Parameter(nm[3], v[3])>> :
             nm \in {q \in ChainNames \X ChainNames \X ChainNames :
                        q[1] # q[2] /\ q[1] # q[3] /\ q[2] # q[3]},
             v \in ChainValues \X ChainValues \X ChainValues}

ChainPrereqLists ==
    { <<>>,
      <<Prereq(<<"a">>, <<"x">>)>>,
      <<Prereq(<<"a">>, Placeholder(<<"b">>))>> }

NextResolve ==
    \/ CheckPrerequisitesCalled(ChainLists, ChainPrereqLists)
    \/ ResolveAgain
    \/ ResolveBreak
    \/ CheckReturn

SpecResolve ==
    InitEval /\ [][NextResolve]_vars

\* Calls for a stage that has no prerequisite, running on to their return.
NextNoPrereq ==
    \/ CheckPrerequisitesCalled(ParamLists, {<<>>})
    \/ ResolveAgain
    \/ ResolveBreak
    \/ CheckReturn

SpecNoPrereqRuns ==
    /\ InitEval /\ [][NextNoPrereq]_vars
    /\ WF_vars(ResolveAgain) /\ WF_vars(ResolveBreak) /\ WF_vars(CheckReturn)

----------------------------------------------------------------------------
\* The graph loader, loadPipelineStage.  The rows of pipeline_action joined
\* with action are the records of d.action: id, pipeline_stage_id,
\* action_id, action_name (the rank of the name in the order of the names),
\* args and enabled.  The time stamps are left out.

\* a blob of action_args that is not the JSON of a parameter list
MalformedArgs ==
    [valid |-> FALSE, list |-> <<>>]

RECURSIVE OrderedPlacements(_)
\* ORDER BY pipeline_action_R.action_name, pipeline_action_R.id ASC
OrderedPlacements(rows) ==
    IF rows = {} THEN <<>>
    ELSE LET first == CHOOSE a \in rows : \A b \in rows :
                        \/ a.action_name < b.action_name
                        \/ /\ a.action_name = b.action_name
                           /\ a.id <= b.id
         IN <<first>> \o OrderedPlacements(rows \ {first})

\* the rows of pipeline_action_R of the stage
PlacementsOf(d, stageID) ==
    OrderedPlacements({a \in d.action : a.pipeline_stage_id = stageID})

\* The rows of pipeline_stage_R LEFT OUTER JOIN pipeline_action_R for one
\* stage: every row of the stage with every placement, by placement, or
\* the rows of the stage with NULL action columns.
PipelineStageRows(d, id, rev) ==
    LET sr == JoinRows(d, id, rev)
        pa == PlacementsOf(d, id)
    IN IF pa = <<>>
       THEN [k \in 1..Len(sr) |->
               [stage |-> sr[k], action_valid |-> FALSE,
                pipeline_action_id |-> 0, action_id |-> 0,
                action_args |-> MalformedArgs, action_enabled |-> FALSE]]
       ELSE [n \in 1..(Len(pa) * Len(sr)) |->
               LET a == pa[((n - 1) \div Len(sr)) + 1]
               IN [stage |-> sr[((n - 1) % Len(sr)) + 1],
                   action_valid |-> TRUE,
                   pipeline_action_id |-> a.id, action_id |-> a.action_id,
                   action_args |-> a.args, action_enabled |-> a.enabled]]

RECURSIVE PipelineRows(_, _, _)
\* the rows of the query, by build_order of the stage
PipelineRows(d, idseq, rev) ==
    IF idseq = <<>> THEN <<>>
    ELSE PipelineStageRows(d, Head(idseq), rev)
            \o PipelineRows(d, Tail(idseq), rev)

\* sdk.Action
Action(pipelineActionID, id, enabled, stageID, parameters) ==
    [PipelineActionID |-> pipelineActionID, ID |-> id, Enabled |-> enabled,
     PipelineStageID |-> stageID, Parameters |-> parameters]

\* the maps and the list of the scan, empty
EmptyGraph ==
    [mapStages |-> <<>>, mapAllActions |-> {}, mapActionsStages |-> <<>>,
     mapArgs |-> <<>>, stagesPtr |-> <<>>, err |-> Nil]

\* m[k], or the zero value of a Go map for a key it does not hold
MapGet(m, k) ==
    IF k \in DOMAIN m THEN m[k] ELSE <<>>

\* m with m[k] = v
MapPut(m, k, v) ==
    [i \in DOMAIN m \cup {k} |-> IF i = k THEN v ELSE m[i]]

RECURSIVE ScanGraph(_, _, _, _)
\* the rows.Next loop from the row i on; the rows.Scan of the row failRow
\* fails
ScanGraph(rows, i, g, failRow) ==
    IF i > Len(rows) THEN g
    ELSE IF i = failRow THEN [g EXCEPT !.err = ErrStorage]
    ELSE LET row == rows[i]
             stageID == row.stage.id
             new == stageID \notin DOMAIN g.mapStages
             \* Stage
             m1 == IF new
                   THEN MapPut(g.mapStages, stageID,
                               [ID |-> stageID,
                                PipelineID |-> row.stage.pipeline_id,
                                Name |-> row.stage.name,
                                BuildOrder |-> row.stage.build_order,
                                Enabled |-> row.stage.enabled,
                                Prerequisites |-> <<>>,
                                Actions |-> <<>>])
                   ELSE g.mapStages
             ptr == IF new THEN Append(g.stagesPtr, stageID) ELSE g.stagesPtr
             \* Stage prequisites
             pre == Prereq(row.stage.parameter, row.stage.expected_value)
             found == \E k \in 1..Len(m1[stageID].Prerequisites) :
                         m1[stageID].Prerequisites[k] = pre
             m2 == IF row.stage.valid /\ ~ found
                   THEN [m1 EXCEPT ![stageID].Prerequisites = Append(@, pre)]
                   ELSE m1
             \* Get actions
             add == /\ row.action_valid
                    /\ row.pipeline_action_id \notin g.mapAllActions
             a == Action(row.pipeline_action_id, row.action_id,
                         row.action_enabled, 0, <<>>)
         IN ScanGraph(rows, i + 1,
               [g EXCEPT
                  !.mapStages = m2,
                  !.stagesPtr = ptr,
                  !.mapAllActions =
                      IF add THEN @ \cup {row.pipeline_action_id} ELSE @,
                  !.mapActionsStages =
                      IF add
                      THEN MapPut(@, stageID, Append(MapGet(@, stageID), a))
                      ELSE @,
                  !.mapArgs =
                      IF add
                      THEN MapPut(@, stageID,
                                  Append(MapGet(@, stageID), row.action_args))
                      ELSE @],
               failRow)

\* updateParamInList(params, paramAction): [isUpdated, list]; the list has
\* a parameter of the name of paramAction, whose value it keeps
updateParamInList(list, paramAction) ==
    [isUpdated |-> \E k \in 1..Len(list) : list[k].Name = paramAction.Name,
     list |-> list]

RECURSIVE MergeParameters(_, _, _)
\* for i := range a.Parameters, from the index i on: the default that is not
\* in the list of the placement is appended to it
MergeParameters(pipelineActionParameter, defaults, i) ==
    IF i > Len(defaults) THEN pipelineActionParameter
    ELSE LET u == updateParamInList(pipelineActionParameter, defaults[i])
         IN MergeParameters(
               IF u.isUpdated THEN u.list ELSE Append(u.list, defaults[i]),
               defaults, i + 1)

\* the default parameters of the action definitions
ActionDefinitions ==
    [id \in {1, 2} |->
        IF id = 1
        THEN <<Parameter("timeout", "30"), Parameter("retries", "1")>>
        ELSE <<Parameter("retries", "1")>>]

\* action.LoadActionByID(db, id): [action, err]; the load of failAction
\* fails
LoadActionByID(id, failAction) ==
    [action |-> Action(0, id, TRUE, 0, ActionDefinitions[id]),
     err |-> IF id = failAction THEN ErrStorage ELSE Nil]

\* action_args that is the JSON of a parameter list
ArgsBlob(list) ==
    [valid |-> TRUE, list |-> list]

ErrDecode == "json: cannot unmarshal"

\* json.Unmarshal([]byte(blob), &pipelineActionParameter): [list, err]
Unmarshal(blob) ==
    IF blob.valid THEN [list |-> blob.list, err |-> Nil]
    ELSE [list |-> <<>>, err |-> ErrDecode]

RECURSIVE LoadStageActions(_, _, _, _)
\* for index := range mapActionsStages[id], from the index on
LoadStageActions(g, id, index, failAction) ==
    IF index > Len(MapGet(g.mapActionsStages, id)) THEN g
    ELSE LET pa == g.mapActionsStages[id][index]
             l == LoadActionByID(pa.ID, failAction)
             u == Unmarshal(g.mapArgs[id][index])
             a == [l.action EXCEPT
                     !.Enabled = pa.Enabled,
                     !.PipelineStageID = id,
                     !.PipelineActionID = pa.PipelineActionID,
                     !.Parameters =
                         MergeParameters(u.list, l.action.Parameters, 1)]
         IN IF l.err # Nil THEN [g EXCEPT !.err = l.err]
            ELSE IF u.err # Nil THEN [g EXCEPT !.err = u.err]
            ELSE LoadStageActions(
                    [g EXCEPT !.mapStages[id].Actions = Append(@, a)],
                    id, index + 1, failAction)

RECURSIVE LoadActions(_, _, _)
\* for id := range mapStages, ids being the order in which the map gives
\* its keys
LoadActions(g, ids, failAction) ==
    IF ids = <<>> \/ g.err # Nil THEN g
    ELSE LoadActions(LoadStageActions(g, Head(ids), 1, failAction),
                     Tail(ids), failAction)

RECURSIVE KeysOf(_, _)
\* the keys of a map by ascending or, down, descending value
KeysOf(keys, down) ==
    IF keys = {} THEN <<>>
    ELSE LET first == CHOOSE i \in keys : \A j \in keys :
                         IF down THEN i >= j ELSE i <= j
         IN <<first>> \o KeysOf(keys \ {first}, down)

\* the stages of the scan in the order of stagesPtr
StagesOf(g) ==
    [k \in 1..Len(g.stagesPtr) |-> g.mapStages[g.stagesPtr[k]]]

\* loadPipelineStage with a stage appended for every row
loadPipelineStage_OneStagePerRow(d, p, e, rev, failRow, failAction, down) ==
    IF e # Nil THEN [p |-> p, err |-> e]
    ELSE LET rows == PipelineRows(d,
                        OrderedStageIDs(d, StageIDsOf(d, p.ID), rev), rev)
             scan == ScanGraph(rows, 1, EmptyGraph, failRow)
             g == LoadActions(scan, KeysOf(DOMAIN scan.mapStages, down),
                              failAction)
         IN IF g.err # Nil THEN [p |-> p, err |-> g.err]
            ELSE [p |-> [p EXCEPT !.Stages =
                           @ \o [k \in 1..Len(rows) |->
                                   g.mapStages[rows[k].stage.id]]],
                  err |-> Nil]

\* loadPipelineStage with the stages of the scan appended before the
\* actions are loaded
loadPipelineStage_AttachesScan(d, p, e, rev, failRow, failAction, down) ==
    IF e # Nil THEN [p |-> p, err |-> e]
    ELSE LET rows == PipelineRows(d,
                        OrderedStageIDs(d, StageIDsOf(d, p.ID), rev), rev)
             scan == ScanGraph(rows, 1, EmptyGraph, failRow)
             g == LoadActions(scan, KeysOf(DOMAIN scan.mapStages, down),
                              failAction)
         IN IF scan.err # Nil THEN [p |-> p, err |-> scan.err]
            ELSE [p |-> [p EXCEPT !.Stages = @ \o StagesOf(g)],
                  err |-> g.err]

\* loadPipelineStage(db, p): [p, err].  e is the error of db.Query, failRow
\* the row whose scan fails, failAction the action whose load fails, down
\* the order of the keys of mapStages.
loadPipelineStage(d, p, e, rev, failRow, failAction, down) ==
    IF e # Nil THEN [p |-> p, err |-> e]
    ELSE LET rows == PipelineRows(d,
                        OrderedStageIDs(d, StageIDsOf(d, p.ID), rev), rev)
             scan == ScanGraph(rows, 1, EmptyGraph, failRow)
             g == LoadActions(scan, KeysOf(DOMAIN scan.mapStages, down),
                              failAction)
         IN IF g.err # Nil THEN [p |-> p, err |-> g.err]
            ELSE [p |-> [p EXCEPT !.Stages = @ \o StagesOf(g)],
                  err |-> Nil]

\* The databases the loader reads: pipeline 1 with the stages 1 and 2 in
\* either build order, their prerequisite rows, and the placements 1 and 2
\* on the stage 1 and 3 on the stage 2.

GraphRowLists ==
    { <<>>,
      <<[parameter |-> "branch", expected_value |-> "master"]>>,
      <<[parameter |-> "branch", expected_value |-> "master"],
        [parameter |-> "env", expected_value |-> "prod"]>>,
      <<[parameter |-> "branch", expected_value |-> "master"],
        [parameter |-> "branch", expected_value |-> "master"]>> }

ArgsBlobs ==
    { ArgsBlob(<<>>),
      ArgsBlob(<<Parameter("timeout", "60")>>),
      ArgsBlob(<<Parameter("retries", "5")>>),
      ArgsBlob(<<Parameter("extra", "1"), Parameter("timeout", "60")>>),
      MalformedArgs }

Placement(id, stageID, actionID, name, args) ==
    [id |-> id, pipeline_stage_id |-> stageID, action_id |-> actionID,
     action_name |-> name, args |-> args, enabled |-> TRUE]

\* the placements: none, the placement 1 of the action 1 on the stage 1,
\* with it the placement 2 of the action 2, whose name comes first, and with
\* them the placement 3 of the action 1 on the stage 2
PlacementSets ==
    {{}}
    \cup {{Placement(1, 1, 1, 2, args)} : args \in ArgsBlobs}
    \cup {{Placement(1, 1, 1, 2, args), Placement(2, 1, 2, 1, ArgsBlob(<<>>))} :
             args \in ArgsBlobs}
    \cup {{Placement(1, 1, 1, 2, args), Placement(2, 1, 2, 1, ArgsBlob(<<>>)),
           Placement(3, 2, 1, 2, ArgsBlob(<<Parameter("retries", "5")>>))} :
             args \in ArgsBlobs}

GraphDB(first, rows1, rows2, placements) ==
    [stage |-> [i \in 1..2 |->
                  [pipeline_id |-> 1, name |-> "build",
                   build_order |-> IF i = first THEN 1 ELSE 2,
                   enabled |-> TRUE]],
     prereq |-> [i \in 1..2 |-> IF i = 1 THEN rows1 ELSE rows2],
     action |-> placements,
     pipeline |-> [q \in Pipelines |-> 0],
     nextID |-> 3, now |-> 0, written |-> {}]

\* the stages of the sdk.Pipeline before the call: none, or one of an
\* earlier load
StagesBefore ==
    { <<>>,
      <<[ID |-> 2, PipelineID |-> 1, Name |-> "build", BuildOrder |-> 2,
         Enabled |-> TRUE, Prerequisites |-> <<>>, Actions |-> <<>>]>> }

InitGraph ==
    /\ \E first \in 1..2, rows1 \in GraphRowLists,
          rows2 \in {<<>>, <<[parameter |-> "branch",
                              expected_value |-> "master"]>>},
          placements \in PlacementSets :
          db = GraphDB(first, rows1, rows2, placements)
    /\ req = [r \in {1} |-> Idle]
    /\ lastOp = NoOp
    /\ params = <<>>
    /\ call = NoCall
    /\ pipe \in {[ID |-> 1, Stages |-> s] : s \in StagesBefore}
    /\ router = NoRouter
    /\ http = NoRequest

\* loadPipelineStage(db, p) is called; lastOp.res keeps p.Stages as they
\* were before, lastOp.sid is 1 when db.Query fails, lastOp.f is the row
\* whose scan fails and lastOp.new the action whose load fails.
LoadPipelineStageReq ==
    /\ lastOp.op = "none"
    /\ \E e \in QueryErrors, rev \in BOOLEAN, failRow \in 0..2,
          failAction \in 0..2, down \in BOOLEAN :
          LET res == loadPipelineStage(db, pipe, e, rev, failRow, failAction,
                                       down)
          IN /\ pipe' = res.p
             /\ lastOp' = [NoOp EXCEPT !.op = "loadPipelineStage",
                                       !.pid = pipe.ID,
                                       !.sid = IF e = Nil THEN 0 ELSE 1,
                                       !.f = failRow, !.new = failAction,
                                       !.err = res.err, !.res = pipe.Stages]
    /\ UNCHANGED <<db, req, evalVars, routerVars>>

NextGraph ==
    LoadPipelineStageReq

SpecGraph ==
    InitGraph /\ [][NextGraph]_vars

----------------------------------------------------------------------------
\* The write operations of the store on two pipelines that both have stages
\* at the build orders 1 and 2: pipeline 1 with the stages 1, 2, 3, pipeline
\* 2 with the stages 4, 5.

RECURSIVE SeqOfIDs(_)
\* the ids of the set by ascending id
SeqOfIDs(ids) ==
    IF ids = {} THEN <<>>
    ELSE LET first == CHOOSE i \in ids : \A j \in ids : i <= j
         IN <<first>> \o SeqOfIDs(ids \ {first})

\* SELECT id FROM pipeline_stage WHERE pipeline_id = $1: the ids in table
\* order or, rev, in the opposite order (the query does not order them)
seleteAllStageID(d, pipelineID, rev) ==
    LET ids == SeqOfIDs(StageIDsOf(d, pipelineID))
    IN IF rev THEN Reverse(ids) ELSE ids

RECURSIVE DeleteAllStageLoop(_, _, _, _)
\* the loop of DeleteAllStage over stageIDs from the index k on: for the
\* k-th id, statement 2k is DeletePipelineActionByStage and statement 2k+1
\* is deleteStagePrerequisites; the first error is returned
DeleteAllStageLoop(d, stageIDs, k, f) ==
    IF k > Len(stageIDs) THEN Res(d, Nil)
    ELSE LET r1 == DeletePipelineActionByStage(d, stageIDs[k], f = 2 * k)
             r2 == deleteStagePrerequisites(r1.db, stageIDs[k], f = 2 * k + 1)
         IN IF r1.err # Nil THEN r1
            ELSE IF r2.err # Nil THEN r2
            ELSE DeleteAllStageLoop(r2.db, stageIDs, k + 1, f)

\* DeleteAllStage: statement 1 is the query of seleteAllStageID (or the scan
\* of one of its rows), 2 to 2n+1 are those of the loop over the n ids, 2n+2
\* is DELETE FROM pipeline_stage WHERE pipeline_id = $1.
DeleteAllStage(d, pipelineID, rev, f) ==
    IF f = 1 THEN Res(d, ErrStorage)
    ELSE LET stageIDs == seleteAllStageID(d, pipelineID, rev)
             r == DeleteAllStageLoop(d, stageIDs, 1, f)
             hit == StageIDsOf(r.db, pipelineID)
         IN IF r.err # Nil THEN r
            ELSE IF f = 2 * Len(stageIDs) + 2 THEN Res(r.db, ErrStorage)
            ELSE Res([r.db EXCEPT
                        !.stage = [i \in DOMAIN r.db.stage \ hit |->
                                     r.db.stage[i]],
                        !.written = @ \cup
                            {<<"pipeline_stage", i>> : i \in hit}],
                     Nil)

WriteStage ==
    [i \in 1..5 |->
        [pipeline_id |-> IF i <= 3 THEN 1 ELSE 2,
         name |-> "build",
         build_order |-> IF i <= 3 THEN i ELSE i - 3,
         enabled |-> TRUE]]

WritePrereq ==
    [i \in {1, 2, 4, 5} |->
        IF i \in {1, 5}
        THEN << [parameter |-> "branch", expected_value |-> "master"],
                [parameter |-> "env", expected_value |-> "prod"] >>
        ELSE << [parameter |-> "branch", expected_value |-> "master"] >>]

WriteDB ==
    [InitDB EXCEPT
       !.stage = WriteStage,
       !.prereq = WritePrereq,
       !.action = {[id |-> 1, pipeline_stage_id |-> 1],
                   [id |-> 2, pipeline_stage_id |-> 4],
                   [id |-> 3, pipeline_stage_id |-> 5]},
       !.nextID = 6]

InitWrite ==
    /\ db = WriteDB
    /\ req = [r \in {1} |-> Idle]
    /\ lastOp = NoOp
    /\ params = <<>>
    /\ call = NoCall
    /\ pipe = NoPipeline
    /\ router = NoRouter
    /\ http = NoRequest

\* The values a caller of UpdateStage gives the stage it loaded.
UpdateNames == {"deploy"}

UpdatePrereqLists ==
    { <<>>,
      <<Prereq("branch", "master")>>,
      <<Prereq("env", "prod"), Prereq("branch", "dev")>> }

\* The request updates the stage it loaded: UpdateStage(db, s) with the
\* name, the build order, the enabled flag and the prerequisites of s set
\* by the caller.  What the statements before an error did stays.
UpdateStageReq(r, fails) ==
    /\ req[r].pc = "loaded"
    /\ db.now < MaxWrites
    /\ \E nm \in UpdateNames, en \in BOOLEAN, pre \in UpdatePrereqLists,
          bo \in {req[r].stage.BuildOrder, req[r].stage.BuildOrder + 1},
          f \in fails :
          LET s == [req[r].stage EXCEPT !.Name = nm, !.BuildOrder = bo,
                                        !.Enabled = en, !.Prerequisites = pre]
              res == UpdateStage(Tick(db), s, f)
          IN /\ db' = res.db
             /\ lastOp' = [NoOp EXCEPT !.op = "UpdateStage",
                                       !.pid = s.PipelineID,
                                       !.sid = s.ID,
                                       !.stage = s,
                                       !.new = bo, !.f = f,
                                       !.err = res.err]
             /\ req' = [req EXCEPT ![r] = [pc |-> "done", stage |-> ZeroStage,
                                           err |-> res.err]]
    /\ UNCHANGED <<evalVars, graphVars, routerVars>>

\* InsertStage(db, s) for a new stage value s of one of the pipelines, at the
\* first position or after the last, on the database or, inTx, in a
\* transaction of the caller that an error rolls back.
InsertStageIntoReq(pids) ==
    /\ db.now < MaxWrites
    /\ db.nextID < WriteDB.nextID + MaxInserts
    /\ \E pid \in pids, nm \in Names, en \in BOOLEAN, pre \in PrereqLists,
          f \in 0..3 :
          \E bo \in InsertOrders(db, pid),
             inTx \in IF f = 0 THEN {FALSE} ELSE BOOLEAN :
          LET s == Stage(0, pid, nm, bo, en, pre)
              res == InsertStage(Tick(db), s, f)
          IN /\ db' = IF res.err # Nil /\ inTx THEN Tick(db) ELSE res.db
             /\ lastOp' = [NoOp EXCEPT !.op = "InsertStage", !.pid = pid,
                                       !.sid = db.nextID,
                                       !.stage = s,
                                       !.new = bo, !.f = f,
                                       !.err = res.err]
    /\ UNCHANGED <<req, evalVars, graphVars, routerVars>>

\* DeleteAllStage(db, pipelineID, userID): no statement fails, or the query
\* of the ids, the delete of the prerequisites of the first id or the delete
\* of the stage rows does.
DeleteAllStageReq ==
    /\ db.now < MaxWrites
    /\ \E pid \in Pipelines, rev \in BOOLEAN :
       \E f \in {0, 1, 3, 2 * CountStageByPipelineID(db, pid) + 2} :
          LET res == DeleteAllStage(Tick(db), pid, rev, f)
          IN /\ db' = res.db
             /\ lastOp' = [NoOp EXCEPT !.op = "DeleteAllStage", !.pid = pid,
                                       !.new = IF rev THEN 1 ELSE 0,
                                       !.f = f, !.err = res.err]
    /\ UNCHANGED <<req, evalVars, graphVars, routerVars>>

\* One worker serves the requests one after the other, up to MaxWriteCalls
\* write operations.
NextWrite ==
    \/ LoadStageReq(1, {"idle", "done"}, Pipelines,
                    DOMAIN db.stage \cup {db.nextID}, {Nil})
    \/ db.now < MaxWriteCalls /\ UpdateStageReq(1, 0..4)
    \/ db.now < MaxWriteCalls /\ MoveStageReq(1, 1, {0, 3})
    \/ db.now < MaxWriteCalls /\ DeleteStageReq(1, {0, 4})
    \/ db.now < MaxWriteCalls /\ InsertStageIntoReq(Pipelines)
    \/ db.now < MaxWriteCalls /\ DeleteAllStageReq

SpecWrite ==
    InitWrite /\ [][NextWrite]_vars

----------------------------------------------------------------------------
\* The request router.  Router.Handle registers the function f for a uri;
\* the server calls f, wrapped in recoverWrap, for every request to the uri.
\* A Handler is named by a string; a RouterConfigParam is the record of the
\* assignment it makes to the routerConfig.

MaxRoutes == 2

Handlers == {"h1", "h2"}

Uris == {"/hook", "/project"}

Methods == {"GET", "POST", "PUT", "DELETE", "OPTIONS", "HEAD"}

Param(f, h, v) ==
    [f |-> f, h |-> h, v |-> v]

GET(h) == Param("GET", h, FALSE)

POST(h) == Param("POST", h, FALSE)

POSTEXECUTE(h) == Param("POSTEXECUTE", h, FALSE)

PUT(h) == Param("PUT", h, FALSE)

NeedAdmin(admin) == Param("NeedAdmin", Nil, admin)

DELETE(h) == Param("DELETE", h, FALSE)

Auth(v) == Param("Auth", Nil, v)

\* h(rc) for a RouterConfigParam h
Configure(h, rc) ==
    IF h.f = "GET" THEN [rc EXCEPT !.get = h.h]
    ELSE IF h.f = "POST" THEN [rc EXCEPT !.post = h.h]
    ELSE IF h.f = "POSTEXECUTE"
    THEN [rc EXCEPT !.post = h.h, !.isExecution = TRUE]
    ELSE IF h.f = "PUT" THEN [rc EXCEPT !.put = h.h]
    ELSE IF h.f = "NeedAdmin" THEN [rc EXCEPT !.needAdmin = h.v]
    ELSE IF h.f = "DELETE" THEN [rc EXCEPT !.deleteHandler = h.h]
    ELSE [rc EXCEPT !.auth = h.v]

RECURSIVE ConfigureAll(_, _, _)
\* for _, h := range handlers { h(rc) }, from the index k on
ConfigureAll(rc, handlers, k) ==
    IF k > Len(handlers) THEN rc
    ELSE ConfigureAll(Configure(handlers[k], rc), handlers, k + 1)

\* Router.Handle(uri, handlers...): the routerConfig is entered in
\* mapRouterConfigs under the uri, replacing an earlier one, and a route for
\* the uri, whose function f holds rc, is added to the mux after the routes
\* it has.
Handle(r, uri, handlers) ==
    LET rc == ConfigureAll(DefaultConfig, handlers, 1)
    IN [mux |-> Append(r.mux, [uri |-> uri, rc |-> rc]),
        mapRouterConfigs |->
            [u \in DOMAIN r.mapRouterConfigs \cup {uri} |->
                IF u = uri THEN rc ELSE r.mapRouterConfigs[u]]]

\* the mux serves a request with its first route for the path
Routed(r, path) ==
    \E k \in 1..Len(r.mux) : r.mux[k].uri = path

Route(r, path) ==
    r.mux[CHOOSE k \in 1..Len(r.mux) :
             /\ r.mux[k].uri = path
             /\ \A j \in 1..(k - 1) : r.mux[j].uri # path]

Event(c, ret) ==
    [call |-> c, ret |-> ret]

\* the handler f runs for the method: the four if statements of f
HandlerOf(rc, method) ==
    IF method = "GET" /\ rc.get # Nil THEN rc.get
    ELSE IF method = "POST" /\ rc.post # Nil THEN rc.post
    ELSE IF method = "PUT" /\ rc.put # Nil THEN rc.put
    ELSE IF method = "DELETE" /\ rc.deleteHandler # Nil THEN rc.deleteHandler
    ELSE Nil

\* the lists of RouterConfigParam the routes are registered with
HandlerLists ==
    { <<>>,
      <<GET("h1"), POST("h2")>>,
      <<GET("h1"), POSTEXECUTE("h2"), PUT("h1"), DELETE("h2")>>,
      <<PUT("h1"), DELETE("h2"), NeedAdmin(TRUE)>>,
      <<Auth(FALSE), GET("h1")>>,
      <<Auth(FALSE), NeedAdmin(TRUE), POST("h1")>>,
      <<Auth(FALSE), GET("h2"), Auth(TRUE)>>,
      <<NeedAdmin(TRUE), DELETE("h1"), NeedAdmin(FALSE)>> }

InitRouter ==
    /\ db = InitDB
    /\ req = [r \in {1} |-> Idle]
    /\ lastOp = NoOp
    /\ params = <<>>
    /\ call = NoCall
    /\ pipe = NoPipeline
    /\ router = NoRouter
    /\ http = NoRequest

\* Router.Handle is called.
HandleCalled ==
    /\ http.pc = "none"
    /\ Len(router.mux) < MaxRoutes
    /\ \E uri \in Uris, handlers \in HandlerLists :
          router' = Handle(router, uri, handlers)
    /\ UNCHANGED <<http, storeVars, evalVars, graphVars>>

\* f is called for a request: an OPTIONS request is answered at once; with
\* no database connection every path but /hook is answered
\* ErrServiceUnavailable.
Serve ==
    /\ http.pc = "none"
    /\ \E path \in Uris, method \in Methods, dbUp \in BOOLEAN :
          /\ Routed(router, path)
          /\ LET r == [NoRequest EXCEPT !.method = method, !.path = path,
                                        !.rc = Route(router, path).rc,
                                        !.db = dbUp]
             IN http' =
                  IF method = "OPTIONS"
                  THEN [r EXCEPT !.pc = "replied", !.response = "StatusOK"]
                  ELSE IF ~ dbUp /\ path # "/hook"
                  THEN [r EXCEPT !.pc = "replied",
                                 !.response = "ErrServiceUnavailable"]
                  ELSE [r EXCEPT !.pc = "auth"]
    /\ UNCHANGED <<router, storeVars, evalVars, graphVars>>

\* if rc.auth: checkAuthHeader returns an error, or nil after it set the
\* user of the context to an admin or to another user, or left it nil
CheckAuthHeader ==
    /\ http.pc = "auth"
    /\ IF http.rc.auth
       THEN \E ret \in {"error", "admin", "user", "nil"} :
               http' =
                 IF ret = "error"
                 THEN [http EXCEPT !.pc = "replied",
                         !.events = Append(@, Event("checkAuthHeader", ret)),
                         !.response = "ErrUnauthorized"]
                 ELSE [http EXCEPT !.pc = "permission", !.user = ret,
                         !.events = Append(@, Event("checkAuthHeader", ret))]
       ELSE http' = [http EXCEPT !.pc = "permission"]
    /\ UNCHANGED <<router, storeVars, evalVars, graphVars>>

\* Permission without the branch of the admin-only routes: checkPermission
\* decides for every user that is no admin
Permission_AsksOnAdminRoutes ==
    /\ http.pc = "permission"
    /\ LET rc == http.rc
           admin == http.user = "admin"
       IN IF rc.auth /\ http.user = "nil"
          THEN http' = [http EXCEPT !.pc = "replied",
                                    !.response = "recovered"]
          ELSE IF rc.auth /\ ~ admin
          THEN \E ret \in BOOLEAN :
                  http' = [http EXCEPT !.pc = "dispatch",
                             !.permissionOk = ret,
                             !.events = Append(@, Event("checkPermission",
                                          IF ret THEN "true" ELSE "false"))]
          ELSE http' = [http EXCEPT !.pc = "dispatch",
                                    !.permissionOk = TRUE]
    /\ UNCHANGED <<router, storeVars, evalVars, graphVars>>

\* permissionOk is set.  c.User.Admin is read only when rc.auth holds; with a
\* nil user the read panics and recoverWrap writes the error.
Permission ==
    /\ http.pc = "permission"
    /\ LET rc == http.rc
           admin == http.user = "admin"
       IN IF rc.auth /\ http.user = "nil"
          THEN http' = [http EXCEPT !.pc = "replied",
                                    !.response = "recovered"]
          ELSE IF rc.auth /\ rc.needAdmin /\ ~ admin
          THEN http' = [http EXCEPT !.pc = "dispatch",
                                    !.permissionOk = FALSE]
          ELSE IF rc.auth /\ ~ rc.needAdmin /\ ~ admin
          THEN \E ret \in BOOLEAN :
                  http' = [http EXCEPT !.pc = "dispatch",
                             !.permissionOk = ret,
                             !.events = Append(@, Event("checkPermission",
                                          IF ret THEN "true" ELSE "false"))]
          ELSE http' = [http EXCEPT !.pc = "dispatch",
                                    !.permissionOk = TRUE]
    /\ UNCHANGED <<router, storeVars, evalVars, graphVars>>

\* if permissionOk, the handler of the method is called, if there is one,
\* and f returns; the handler writes the response or panics, and then
\* recoverWrap writes the error.
Dispatch ==
    /\ http.pc = "dispatch"
    /\ LET h == HandlerOf(http.rc, http.method)
       IN IF http.permissionOk
          THEN IF h # Nil
               THEN \E panics \in BOOLEAN :
                       http' = [http EXCEPT !.pc = "replied",
                                  !.events = Append(@, Event("handler", h)),
                                  !.response = IF panics THEN "recovered"
                                               ELSE "handler"]
               ELSE http' = [http EXCEPT !.pc = "replied",
                                         !.response = "ErrNotFound"]
          ELSE http' = [http EXCEPT !.pc = "replied",
                                    !.response = "ErrForbidden"]
    /\ UNCHANGED <<router, storeVars, evalVars, graphVars>>

\* req.Close = true: the connection is closed after the reply.
Closed ==
    /\ http.pc = "replied"
    /\ http' = NoRequest
    /\ UNCHANGED <<router, storeVars, evalVars, graphVars>>

NextRouter ==
    \/ HandleCalled
    \/ Serve
    \/ CheckAuthHeader
    \/ Permission
    \/ Dispatch
    \/ Closed

SpecRouter ==
    InitRouter /\ [][NextRouter]_vars

----------------------------------------------------------------------------
\* Properties of the store.

BuildOrders(d, pipelineID) ==
    {d.stage[i].build_order : i \in StageIDsOf(d, pipelineID)}

\* the build orders of the pipeline are exactly 1..N, none twice
Dense(d, pipelineID) ==
    /\ BuildOrders(d, pipelineID) = 1..CountStageByPipelineID(d, pipelineID)
    /\ Cardinality(BuildOrders(d, pipelineID)) =
          CountStageByPipelineID(d, pipelineID)

\* the stage value s is a stage row of its pipeline at its build order
StoredAsGiven(d, s) ==
    /\ s.ID \in DOMAIN d.stage
    /\ d.stage[s.ID].pipeline_id = s.PipelineID
    /\ d.stage[s.ID].build_order = s.BuildOrder

Tables(d) ==
    <<d.stage, d.prereq, d.action, d.pipeline>>

\* the step is a write operation (they alone advance the clock); lastOp'
\* describes it
WriteStep(op) ==
    /\ db'.now # db.now
    /\ lastOp'.op = op

\* the call of the step is one the amended C1 covers
ValidCall ==
    \/ /\ WriteStep("InsertStage")
       /\ lastOp'.new = CountStageByPipelineID(db, lastOp'.pid) + 1
    \/ /\ WriteStep("MoveStage")
       /\ StoredAsGiven(db, lastOp'.stage)
       /\ lastOp'.new \in 1..CountStageByPipelineID(db, lastOp'.pid)
    \/ /\ WriteStep("DeleteStageByID")
       /\ StoredAsGiven(db, lastOp'.stage)

\* C1 as stated: after every InsertStage, DeleteStageByID and MoveStage of
\* any sequence of calls, the build orders of every pipeline are exactly
\* 1..N with N its number of stages.
C1_DenseAfterEveryCall ==
    \A p \in Pipelines : Dense(db, p)

\* C1 as amended: a call keeps the build orders of a pipeline exactly 1..N
\* when it is an InsertStage at position N+1, a DeleteStageByID of a stage
\* given as it is stored, or a MoveStage of a stage given as it is stored to
\* a position of 1..N.
C1_DensePreserved ==
    [][ValidCall => \A p \in Pipelines : Dense(db, p) => Dense(db', p)]_vars

\* an insert at N+1 and then a move to another position, both committed
C1_Witness ==
    /\ lastOp.op = "MoveStage"
    /\ lastOp.err = Nil
    /\ lastOp.new # lastOp.stage.BuildOrder
    /\ lastOp.new \in 1..4
    /\ InitDB.nextID \in StageIDsOf(db, 1)
    /\ CountStageByPipelineID(db, 1) = 4
    /\ Dense(db, 1)

\* C2: when two requests each load a stage of pipeline 1 and then each
\* commit a MoveStage to a position of the pipeline or a DeleteStageByID,
\* the build orders of the pipeline are exactly 1..N after both, for every
\* interleaving of the loads and the transactions.
C2_DenseAfterBoth ==
    (\A r \in DOMAIN req : req[r].pc = "done" /\ req[r].err = Nil)
        => Dense(db, 1)

\* the build order a successful MoveStage of the stage s to new leaves a
\* stage of its pipeline that had the build order o
Shifted(o, old, new) ==
    IF new < old /\ o >= new /\ o < old THEN o + 1
    ELSE IF new > old /\ o > old /\ o <= new THEN o - 1
    ELSE o

\* C3: a successful MoveStage(s, new) of a stage stored at the build order
\* old = s.BuildOrder adds one to every other stage of the pipeline in
\* [new, old) when new < old, subtracts one from every other stage in
\* (old, new] when new > old, leaves every other stage as it is, leaves s at
\* new, and keeps the order of any two other stages.
C3_MoveShiftsRange ==
    [][(/\ WriteStep("MoveStage")
        /\ lastOp'.err = Nil
        /\ StoredAsGiven(db, lastOp'.stage))
       => LET s == lastOp'.stage
              others == StageIDsOf(db, s.PipelineID) \ {s.ID}
          IN /\ DOMAIN db'.stage = DOMAIN db.stage
             /\ db'.stage[s.ID].build_order = lastOp'.new
             /\ \A i \in others :
                   db'.stage[i].build_order =
                      Shifted(db.stage[i].build_order, s.BuildOrder,
                              lastOp'.new)
             /\ \A i \in DOMAIN db.stage \ (others \cup {s.ID}) :
                   db'.stage[i] = db.stage[i]
             /\ \A i, j \in others :
                   db.stage[i].build_order <= db.stage[j].build_order
                      => db'.stage[i].build_order <= db'.stage[j].build_order
      ]_vars

\* a committed move of the stage at position 3 of pipeline 1 to position 1
C3_Witness ==
    /\ lastOp.op = "MoveStage"
    /\ lastOp.err = Nil
    /\ lastOp.stage.PipelineID = 1
    /\ lastOp.stage.BuildOrder = 3
    /\ lastOp.new = 1
    /\ lastOp.sid \in DOMAIN db.stage
    /\ db.stage[lastOp.sid].build_order = 1
    /\ Dense(db, 1)

C5_DeleteRenumbers ==
    [][(/\ WriteStep("DeleteStageByID")
        /\ lastOp'.err = Nil
        /\ StoredAsGiven(db, lastOp'.stage)
        /\ Dense(db, lastOp'.stage.PipelineID))
       => LET s == lastOp'.stage
          IN /\ DOMAIN db'.stage = DOMAIN db.stage \ {s.ID}
             /\ \A i \in DOMAIN db'.stage :
                   db'.stage[i] =
                      IF /\ db.stage[i].pipeline_id = s.PipelineID
                         /\ db.stage[i].build_order > s.BuildOrder
                      THEN [db.stage[i] EXCEPT !.build_order = @ - 1]
                      ELSE db.stage[i]
      ]_vars

\* a committed delete of the stage at position 2 of the four of pipeline 1
C5_Witness ==
    /\ lastOp.op = "DeleteStageByID"
    /\ lastOp.err = Nil
    /\ lastOp.stage.PipelineID = 1
    /\ lastOp.stage.BuildOrder = 2
    /\ lastOp.sid \notin DOMAIN db.stage
    /\ CountStageByPipelineID(db, 1) = 3
    /\ Dense(db, 1)

\* C6: when a statement of the delete of a stage fails (the begin, the
\* count, the action-placement cleanup, the delete of the prerequisites, the
\* delete of the row, the shift or the commit), the operation returns an
\* error and every table is as it was before the call.
C6_FailedDeleteChangesNothing ==
    [][WriteStep("DeleteStageByID")
       => /\ lastOp'.f # 0 => lastOp'.err # Nil
          /\ lastOp'.err # Nil => Tables(db') = Tables(db)
      ]_vars

\* the action-placement cleanup of a stage that has a placement and
\* prerequisites failed, and the stage, its placement and its prerequisites
\* are there
C6_Witness ==
    /\ lastOp.op = "DeleteStageByID"
    /\ lastOp.f = 3
    /\ lastOp.err # Nil
    /\ lastOp.sid \in DOMAIN db.stage
    /\ lastOp.sid \in DOMAIN db.prereq
    /\ \E a \in db.action : a.pipeline_stage_id = lastOp.sid

\* C7: when MoveStage returns an error, every table is as it was before the
\* call, so the build orders of all stages too; and it returns an error
\* when the begin, the stage update, the prerequisite delete, the pipeline
\* update or the commit fails.
C7_FailedMoveChangesNothing ==
    [][WriteStep("MoveStage")
       => /\ lastOp'.f \in {1, 3, 4, 6, 7} => lastOp'.err # Nil
          /\ lastOp'.err # Nil => Tables(db') = Tables(db)
      ]_vars

\* the stage update of a move to another position failed after the shift
C7_Witness ==
    /\ lastOp.op = "MoveStage"
    /\ lastOp.f = 3
    /\ lastOp.err # Nil
    /\ lastOp.sid \in DOMAIN db.stage
    /\ lastOp.new # lastOp.stage.BuildOrder
    /\ lastOp.new \in 1..3
    /\ db.stage[lastOp.sid].build_order = lastOp.stage.BuildOrder

\* C8: LoadStage(pipelineID, stageID) returns an error (ErrNoStage, or the
\* error of the storage engine) whenever no stage row has that pipeline id
\* and that id; it never returns a stage with a nil error then.
C8_NoRowIsAnError ==
    (/\ lastOp.op = "LoadStage"
     /\ ~ (/\ lastOp.sid \in DOMAIN db.stage
           /\ db.stage[lastOp.sid].pipeline_id = lastOp.pid))
        => lastOp.err # Nil

NoDuplicate(s) ==
    \A k, l \in 1..Len(s) : k # l => s[k] # s[l]

\* C9: a successful LoadStages(pipelineID) returns one entry per stage of
\* the pipeline, by ascending build order, each with the prerequisites of
\* its stage, none of them twice.
C9_OneEntryPerStage ==
    (lastOp.op = "LoadStages" /\ lastOp.err = Nil)
        => LET ids == StageIDsOf(db, lastOp.pid)
               res == lastOp.res
           IN /\ Len(res) = Cardinality(ids)
              /\ {res[k].ID : k \in 1..Len(res)} = ids
              /\ \A k, l \in 1..Len(res) :
                    k < l => db.stage[res[k].ID].build_order
                                < db.stage[res[l].ID].build_order
              /\ \A k \in 1..Len(res) :
                    /\ NoDuplicate(res[k].Prerequisites)
                    /\ {res[k].Prerequisites[m] :
                           m \in 1..Len(res[k].Prerequisites)}
                       = {Prereq(x.parameter, x.expected_value) :
                             x \in {PrereqRows(db, res[k].ID)[m] :
                                      m \in 1..Len(PrereqRows(db, res[k].ID))}}

\* C10: when CheckPrerequisites has returned, the values of the caller's
\* build parameters are those from before the call.
C10_ParametersUntouched ==
    call.pc = "done" => params = call.before

\* s holds sub, a non-empty string
Contains(s, sub) ==
    Replace(s, sub, <<>>) # s

\* the model follows the loop as long as no value is longer than MaxValueLen
BeyondBound ==
    /\ call.pc = "resolve"
    /\ Replaced(params, 1)
    /\ \E k \in 1..Len(params) :
          Len(ResolvePass(params, 1)[k].Value) > MaxValueLen

\* The loop is left unfollowed only where it has no end: a value gets beyond
\* MaxValueLen only when, after the pass, a parameter holds the placeholder
\* of its own name next to other text, which every later pass replaces by
\* that longer value again.
BeyondBoundRunsOn ==
    BeyondBound =>
       \E k \in 1..Len(params) :
          LET p == ResolvePass(params, 1)[k]
          IN /\ Contains(p.Value, Placeholder(p.Name))
             /\ p.Value # Placeholder(p.Name)

NamesOf(ps) ==
    {ps[k].Name : k \in 1..Len(ps)}

\* the value of the parameter of the list that has the name
ValueOf(ps, name) ==
    ps[CHOOSE k \in 1..Len(ps) : ps[k].Name = name].Value

\* the parameter of the name refers to the parameter of the name m
RefersTo(ps, name, m) ==
    Contains(ValueOf(ps, name), Placeholder(m))

\* the names reached from the names of the set along at most n references
RECURSIVE ReachedFrom(_, _, _)
ReachedFrom(ps, from, n) ==
    IF n = 0 THEN from
    ELSE ReachedFrom(ps,
            from \cup {m \in NamesOf(ps) :
                         \E f \in from : RefersTo(ps, f, m)},
            n - 1)

\* no parameter refers to itself, directly or through others
Acyclic(ps) ==
    \A name \in NamesOf(ps) :
       name \notin ReachedFrom(ps,
                      {m \in NamesOf(ps) : RefersTo(ps, name, m)}, Len(ps))

\* the value with the placeholders of the names taken in the fixed order
\* a, b, c replaced by the values the list gives them
SubstAll(ps, value) ==
    LET val(name, v) == IF name \in NamesOf(ps)
                        THEN Replace(v, Placeholder(name), ValueOf(ps, name))
                        ELSE v
    IN val(<<"c">>, val(<<"b">>, val(<<"a">>, value)))

\* the fully resolved value: placeholders replaced n times over
RECURSIVE FullValue(_, _, _)
FullValue(ps, value, n) ==
    IF n = 0 THEN value
    ELSE FullValue(ps, SubstAll(ps, value), n - 1)

\* the list with every value fully resolved
Resolved(ps) ==
    [k \in 1..Len(ps) |->
        Parameter(ps[k].Name, FullValue(ps, ps[k].Value, Len(ps)))]

\* C12: for parameters whose references are acyclic, the loop is left with
\* every value fully resolved, no placeholder of a build parameter left in
\* it, whatever the order of the list, and the result of the call is that
\* of the conditions checked on the resolved values.
C12_ResolvedBeforeMatching ==
    (call.pc \in {"check", "done"} /\ Acyclic(call.before))
        => /\ params = Resolved(call.before)
           /\ \A k \in 1..Len(params), name \in NamesOf(params) :
                 ~ Contains(params[k].Value, Placeholder(name))
           /\ call.pc = "done" =>
                 LET r == CheckConditions(call.prereqs,
                                          Resolved(call.before), 1, 1)
                 IN call.ok = r.ok /\ call.err = r.err

\* a chain of three, c before b before a in the list, has been resolved and
\* matched
C12_Witness ==
    /\ call.pc = "done"
    /\ Len(call.before) = 3
    /\ Acyclic(call.before)
    /\ call.before[1].Name = <<"a">>
    /\ call.before[1].Value = Placeholder(<<"b">>)
    /\ ValueOf(call.before, <<"b">>) = Placeholder(<<"c">>)
    /\ ValueOf(call.before, <<"c">>) = <<"x">>
    /\ \A k \in 1..3 : params[k].Value = <<"x">>
    /\ call.prereqs # <<>>
    /\ call.ok

\* a call for a stage with no prerequisite that returns, returns (true, nil)
NoPrerequisiteReturnsTrue ==
    (call.pc = "done" /\ call.prereqs = <<>>)
        => (call.ok /\ call.err = Nil)

NamesParameter(p, ps) ==
    p.Parameter \in NamesOf(ps)

\* regexp.Match of the anchored expanded pattern of the prerequisite on the
\* value
PatternMatch(p, ps, value) ==
    RegexpMatch(Anchored(ProcessTriggerExpectedValue(p.ExpectedValue, ps, 1)),
                value)

\* the pattern of the prerequisite is a regular expression and matches the
\* value of every parameter of its name
Satisfied(p, ps) ==
    \A k \in 1..Len(ps) :
       ps[k].Name = p.Parameter
          => (PatternMatch(p, ps, ps[k].Value).err = Nil
              /\ PatternMatch(p, ps, ps[k].Value).ok)

\* the pattern of the prerequisite is a regular expression that does not
\* match the value of the parameter of its name
Mismatch(p, ps) ==
    /\ NamesParameter(p, ps)
    /\ PatternMatch(p, ps, ValueOf(ps, p.Parameter)).err = Nil
    /\ ~ PatternMatch(p, ps, ValueOf(ps, p.Parameter)).ok

\* the prerequisites that name a parameter of the build
Applicable(prereqs, ps) ==
    SelectSeq(prereqs, LAMBDA p : NamesParameter(p, ps))

\* the result of a call that returns is true exactly when every
\* prerequisite that names a build parameter is satisfied by the resolved
\* value; when the first prerequisite not satisfied is a mismatch it is
\* (false, nil), whatever the prerequisites after it are; the prerequisites
\* that name no build parameter do not change it
ConjunctionOnReturn ==
    call.pc = "done"
        => LET pre == call.prereqs
               unsat == {i \in 1..Len(pre) : ~ Satisfied(pre[i], params)}
               r == CheckConditions(Applicable(pre, params), params, 1, 1)
           IN /\ call.ok <=> unsat = {}
              /\ \A i \in unsat :
                    ((\A j \in unsat : i <= j) /\ Mismatch(pre[i], params))
                       => (~ call.ok /\ call.err = Nil)
              /\ call.ok = r.ok
              /\ call.err = r.err

WholeMatch(pattern, text) ==
    LET c == Compile(pattern)
    IN /\ c.err = Nil
       /\ \E a \in 1..Len(c.alts) :
             MatchHere(Append(c.alts[a], [atom |-> "$", star |-> FALSE]),
                       text, 0)

\* C15: a prerequisite is satisfied only if its expanded pattern matches the
\* whole value of the parameter: when the call returns true, the pattern of
\* every prerequisite that names a build parameter matches the whole value.
C15_WholeValueMatching ==
    (call.pc = "done" /\ call.ok)
        => \A i \in 1..Len(call.prereqs) :
              NamesParameter(call.prereqs[i], params)
                 => WholeMatch(
                       ProcessTriggerExpectedValue(
                          call.prereqs[i].ExpectedValue, params, 1),
                       ValueOf(params, call.prereqs[i].Parameter))

\* the anchored expanded pattern of the prerequisite is not a regular
\* expression
Malformed(p, ps) ==
    Compile(Anchored(ProcessTriggerExpectedValue(p.ExpectedValue, ps, 1))).err
        # Nil

\* C16: when the stage has a prerequisite whose expanded pattern is not a
\* regular expression, the call returns an error, and neither (true, nil)
\* nor (false, nil).
C16_MalformedPatternIsAnError ==
    (/\ call.pc = "done"
     /\ \E i \in 1..Len(call.prereqs) : Malformed(call.prereqs[i], params))
        => call.err # Nil

\* a call of loadPipelineStage has returned without an error
Loaded ==
    lastOp.op = "loadPipelineStage" /\ lastOp.err = Nil

\* the stages the call has appended to p.Stages
Attached ==
    SubSeq(pipe.Stages, Len(lastOp.res) + 1, Len(pipe.Stages))

\* the parameters of the placement as the claim has them: those of the
\* definition in its order, each with the value of the override of its name
\* when there is one, then the overrides of other names in their order
ResolvedParameters(defaults, overrides) ==
    LET override(name) ==
            overrides[CHOOSE k \in 1..Len(overrides) :
                         /\ overrides[k].Name = name
                         /\ \A j \in 1..(k - 1) : overrides[j].Name # name]
        overridden(name) ==
            \E k \in 1..Len(overrides) : overrides[k].Name = name
        defined(name) ==
            \E k \in 1..Len(defaults) : defaults[k].Name = name
    IN [k \in 1..Len(defaults) |->
           IF overridden(defaults[k].Name) THEN override(defaults[k].Name)
           ELSE defaults[k]]
       \o SelectSeq(overrides, LAMBDA o : ~ defined(o.Name))

\* the overrides of the placement, decoded
OverridesOf(pipelineActionID) ==
    (CHOOSE a \in db.action : a.id = pipelineActionID).args.list

\* C17: the parameters of every action placement of a loaded stage are the
\* defaults of its definition in definition order, with the value of the
\* override for the overridden names, followed by the overrides that match
\* no default in their original order.
C17_ParametersInDefinitionOrder ==
    Loaded =>
       \A k \in 1..Len(Attached) :
          \A n \in 1..Len(Attached[k].Actions) :
             LET a == Attached[k].Actions[n]
             IN a.Parameters =
                   ResolvedParameters(ActionDefinitions[a.ID],
                                      OverridesOf(a.PipelineActionID))

\* the parameters of every placement hold the same name-value pairs as the
\* claim has them
SameParametersAnyOrder ==
    Loaded =>
       \A k \in 1..Len(Attached) :
          \A n \in 1..Len(Attached[k].Actions) :
             LET a == Attached[k].Actions[n]
                 r == ResolvedParameters(ActionDefinitions[a.ID],
                                         OverridesOf(a.PipelineActionID))
             IN /\ Len(a.Parameters) = Len(r)
                /\ {a.Parameters[i] : i \in 1..Len(r)}
                      = {r[i] : i \in 1..Len(r)}

\* s has every element once
Once(s) ==
    \A k, l \in 1..Len(s) : k # l => s[k] # s[l]

\* the elements of s
Range(s) ==
    {s[k] : k \in 1..Len(s)}

\* C18: the stages a successful loadPipelineStage attaches are the stages
\* of the pipeline, each once, by build order; the actions of a stage are
\* its placements, each once, in the order of the rows; the prerequisites
\* of a stage are the pairs of its prerequisite rows, each once.
C18_GraphWithoutDuplicates ==
    Loaded =>
       /\ [k \in 1..Len(Attached) |-> Attached[k].ID]
             = OrderedStageIDs(db, StageIDsOf(db, pipe.ID), FALSE)
       /\ \A k \in 1..Len(Attached) :
             LET s == Attached[k]
                 pa == PlacementsOf(db, s.ID)
                 pr == PrereqRows(db, s.ID)
             IN /\ [n \in 1..Len(s.Actions) |->
                       s.Actions[n].PipelineActionID]
                      = [n \in 1..Len(pa) |-> pa[n].id]
                /\ \A n \in 1..Len(s.Actions) :
                      s.Actions[n].PipelineStageID = s.ID
                /\ Once(s.Prerequisites)
                /\ Range(s.Prerequisites)
                      = {Prereq(pr[n].parameter, pr[n].expected_value) :
                            n \in 1..Len(pr)}

\* a stage with two equal prerequisite rows and two placements, four rows
\* of the join, is loaded with one prerequisite and two actions
C18_Witness ==
    /\ Loaded
    /\ Len(PrereqRows(db, 1)) = 2
    /\ PrereqRows(db, 1)[1] = PrereqRows(db, 1)[2]
    /\ Len(PlacementsOf(db, 1)) = 2
    /\ Len(PipelineStageRows(db, 1, FALSE)) = 4
    /\ \E k \in 1..Len(Attached) :
          /\ Attached[k].ID = 1
          /\ Len(Attached[k].Prerequisites) = 1
          /\ Len(Attached[k].Actions) = 2

\* the rows of the query of the last call
RowsRead ==
    PipelineRows(db, OrderedStageIDs(db, StageIDsOf(db, lastOp.pid), FALSE),
                 FALSE)

\* the query, the scan of a row, the load of an action definition or the
\* decoding of a blob of the last call fails
LoadFails ==
    \/ lastOp.sid = 1
    \/ lastOp.f \in 1..Len(RowsRead)
    \/ \E k \in 1..Len(RowsRead) :
          /\ RowsRead[k].action_valid
          /\ \/ RowsRead[k].action_id = lastOp.new
             \/ ~ RowsRead[k].action_args.valid

\* C19: when the query, a scan, an action load or a decoding fails,
\* loadPipelineStage returns an error, and when it returns an error the
\* stages of the pipeline are those of before the call.
C19_AllOrNothing ==
    lastOp.op = "loadPipelineStage"
        => /\ LoadFails => lastOp.err # Nil
           /\ lastOp.err # Nil => pipe.Stages = lastOp.res

\* the blob of a placement does not decode after the rows, two stages among
\* them, are scanned: an error, and the one stage of before
C19_Witness ==
    /\ lastOp.op = "loadPipelineStage"
    /\ lastOp.err = ErrDecode
    /\ Len(RowsRead) >= 2
    /\ lastOp.res # <<>>
    /\ pipe.Stages = lastOp.res

\* C20: a successful InsertStage stores the stage row with enabled = true
\* under the generated id, stores the prerequisites of the stage under that
\* id, and sets the last-modified stamp of the pipeline of the stage to the
\* time of the call, with or without prerequisites.
C20_InsertStoresEnabledAndStamps ==
    [][(WriteStep("InsertStage") /\ lastOp'.err = Nil)
          => LET s == lastOp'.stage
                 id == db.nextID
             IN /\ id \notin DOMAIN db.stage
                /\ id \in DOMAIN db'.stage
                /\ db'.stage[id] = [pipeline_id |-> s.PipelineID,
                                    name |-> s.Name,
                                    build_order |-> s.BuildOrder,
                                    enabled |-> TRUE]
                /\ PrereqRows(db', id)
                      = [k \in 1..Len(s.Prerequisites) |->
                           [parameter |-> s.Prerequisites[k].Parameter,
                            expected_value |->
                               s.Prerequisites[k].ExpectedValue]]
                /\ db'.pipeline[s.PipelineID] = db'.now
                /\ db'.pipeline[s.PipelineID] # db.pipeline[s.PipelineID]
                /\ <<"pipeline", s.PipelineID>> \in db'.written]_vars

\* a stage given with Enabled false and no prerequisite has been inserted:
\* its row is enabled and the pipeline has the stamp of the insert
C20_Witness ==
    /\ lastOp.op = "InsertStage"
    /\ lastOp.err = Nil
    /\ ~ lastOp.stage.Enabled
    /\ lastOp.stage.Prerequisites = <<>>
    /\ db.stage[lastOp.sid].enabled
    /\ db.pipeline[1] = db.now
    /\ db.now > 0

\* the rows of pipeline_stage_prerequisite that hold the prerequisites of
\* the stage value, in their order
RowsOf(s) ==
    [k \in 1..Len(s.Prerequisites) |->
        [parameter |-> s.Prerequisites[k].Parameter,
         expected_value |-> s.Prerequisites[k].ExpectedValue]]

\* C21: after a successful UpdateStage(s) of a stored stage, the stored
\* prerequisites of the stage are exactly s.Prerequisites, whatever they were
\* before, its stored name, build order and enabled flag are those of s, and
\* the prerequisites of every other stage are as before.
C21_UpdateReplacesPrerequisites ==
    [][(/\ WriteStep("UpdateStage")
        /\ lastOp'.err = Nil
        /\ lastOp'.sid \in DOMAIN db.stage)
       => LET s == lastOp'.stage
          IN /\ s.ID \in DOMAIN db'.stage
             /\ db'.stage[s.ID].name = s.Name
             /\ db'.stage[s.ID].build_order = s.BuildOrder
             /\ db'.stage[s.ID].enabled = s.Enabled
             /\ PrereqRows(db', s.ID) = RowsOf(s)
             /\ \A i \in (DOMAIN db.prereq \cup DOMAIN db'.prereq) \ {s.ID} :
                   PrereqRows(db', i) = PrereqRows(db, i)
      ]_vars

\* a successful update of stage 1, which had the prerequisites branch and
\* env, to two other prerequisites, a new name and enabled = false
C21_Witness ==
    /\ lastOp.op = "UpdateStage"
    /\ lastOp.err = Nil
    /\ lastOp.sid = 1
    /\ Len(lastOp.stage.Prerequisites) = 2
    /\ RowsOf(lastOp.stage) # WritePrereq[1]
    /\ PrereqRows(db, 1) = RowsOf(lastOp.stage)
    /\ db.stage[1].name = "deploy"
    /\ ~ db.stage[1].enabled
    /\ PrereqRows(db, 2) = WritePrereq[2]

\* C22: a write operation (InsertStage, UpdateStage, DeleteStageByID,
\* DeleteAllStage, MoveStage) on pipeline P, successful or not, leaves every
\* stage of every other pipeline in place with its row and its
\* prerequisites, and gives no other pipeline a new stage.
C22_OtherPipelinesUntouched ==
    [][db'.now # db.now
       => /\ \A i \in DOMAIN db.stage :
                db.stage[i].pipeline_id # lastOp'.pid
                   => /\ i \in DOMAIN db'.stage
                      /\ db'.stage[i] = db.stage[i]
                      /\ PrereqRows(db', i) = PrereqRows(db, i)
          /\ \A q \in Pipelines \ {lastOp'.pid} :
                StageIDsOf(db', q) = StageIDsOf(db, q)
      ]_vars

\* a committed move of the stage at position 3 of pipeline 1 to position 1,
\* which shifts the build orders 1 and 2, the ones the stages 4 and 5 of
\* pipeline 2 have and keep
C22_Witness ==
    /\ lastOp.op = "MoveStage"
    /\ lastOp.err = Nil
    /\ lastOp.pid = 1
    /\ lastOp.stage.BuildOrder = 3
    /\ lastOp.new = 1
    /\ {1, 2, 3, 4, 5} \subseteq DOMAIN db.stage
    /\ db.stage[1].build_order = 2
    /\ db.stage[2].build_order = 3
    /\ db.stage[4].pipeline_id = 2
    /\ db.stage[4].build_order = 1
    /\ db.stage[5].build_order = 2

\* the indices of the calls of a handler among the calls of the request
HandlerCalls(ev) ==
    {k \in 1..Len(ev) : ev[k].call = "handler"}

\* the call with the result is among the calls before the index k
Before(ev, k, c, rets) ==
    \E j \in 1..(k - 1) : ev[j].call = c /\ ev[j].ret \in rets

\* C23: for a request to a route with authentication enabled, a handler is
\* called only after checkAuthHeader returned no error and only when the
\* user is an admin or the route is not admin-only and checkPermission
\* returned true before the call; when checkAuthHeader returns an error the
\* response is ErrUnauthorized, when the user is no admin and the route is
\* admin-only or checkPermission returned false the response is
\* ErrForbidden, and no handler is called in both cases.  For every request
\* at most one handler is called, the one of the method, and none for
\* OPTIONS.
C23_HandlersAreGated ==
    LET ev == http.events
        rc == http.rc
        calls == HandlerCalls(ev)
        last == Len(ev) + 1
    IN /\ Cardinality(calls) <= 1
       /\ \A k \in calls :
             /\ http.method \in {"GET", "POST", "PUT", "DELETE"}
             /\ ev[k].ret = HandlerOf(rc, http.method)
       /\ http.method = "OPTIONS" => calls = {}
       /\ rc.auth =>
            /\ \A k \in calls :
                  /\ Before(ev, k, "checkAuthHeader", {"admin", "user"})
                  /\ \/ Before(ev, k, "checkAuthHeader", {"admin"})
                     \/ /\ ~ rc.needAdmin
                        /\ Before(ev, k, "checkPermission", {"true"})
            /\ Before(ev, last, "checkAuthHeader", {"error"})
                  => /\ calls = {}
                     /\ http.pc = "replied"
                     /\ http.response = "ErrUnauthorized"
            /\ (/\ http.pc = "replied"
                /\ Before(ev, last, "checkAuthHeader", {"user"})
                /\ \/ rc.needAdmin
                   \/ Before(ev, last, "checkPermission", {"false"}))
                  => /\ calls = {}
                     /\ http.response = "ErrForbidden"

\* with two routes registered, a DELETE of an admin on an admin-only route
\* was served by its handler
C23_Witness ==
    /\ http.pc = "replied"
    /\ http.method = "DELETE"
    /\ http.rc.auth
    /\ http.rc.needAdmin
    /\ http.events = <<Event("checkAuthHeader", "admin"),
                       Event("handler", "h2")>>
    /\ http.response = "handler"
    /\ Len(router.mux) = 2

====
